---- MODULE Spec2Model ----
(***************************************************************************)
(* Model of the mcpos countdown MCP server (apps/countdown/src/server.ts)  *)
(* and of the sandbox proxy script (sandbox.ts).                           *)
(*                                                                         *)
(* Server side: the module-level session map `transports`, the single      *)
(* McpServer instance that every new transport is connected to, the three  *)
(* request handlers, the Express router, and the countdown tool with its   *)
(* setInterval callback.  Every `await` of the source is a suspension      *)
(* point: the handler or timer callback that reaches it is resumed by a    *)
(* later action.                                                           *)
(*                                                                         *)
(* Host side (ui/src): the ToolWindow component with its execute and stop  *)
(* handlers, the AppIFramePanel effect, the sandbox utilities              *)
(* (loadSandboxProxy, newAppBridge, initializeApp, hookInitializedCallback)*)
(* and MCPClientService.getUiResource.                                     *)
(***************************************************************************)
EXTENDS Integers, Sequences, FiniteSets, TLC

\* ---------------------------------------------------------------- bounds
MaxTransports == 2      \* transports (initialize POSTs) created in one run
MaxTimers == 1          \* countdown tool calls that start an interval
MaxStart == 1           \* largest valid start value tried
MaxOverlap == 2         \* timer callbacks of one interval suspended at once
MaxMsgs == 3            \* message events the sandbox proxy receives in one run
MaxDomains == 2         \* length of a CSP domain list
MaxExec == 2            \* Execute clicks in one tool window
MaxToolChanges == 1     \* times the tool window is given another tool
MaxInitEvents == 2      \* initialized notifications one guest sends
MaxInFlight == 2        \* requests of one session inside handleRequest at once
MaxServers == 2         \* servers listed in the dashboard
MaxParts == 2           \* content parts of a resources/read result

\* ------------------------------------------------------ program constants
MinStartAllowed == 1
MaxStartAllowed == 3600

Tids == 1..MaxTransports
Tms == 1..MaxTimers
\* Session ids a request header may carry; 0 stands for "header absent".
\* One id more than the server can generate, so an unknown id always exists.
SessionIds == 1..(MaxTransports + 1)
HeaderIds == 0..(MaxTransports + 1)
\* The start argument of a call that carries none.
NoStart == 0 - 1
StartInputs == {NoStart, 0, MaxStart, MaxStartAllowed + 1} \cup {MinStartAllowed}
\* A POST body: an initialize message, a batch that contains one, a countdown
\* tools/call with its start argument, or any other message.
Body(kind, start) == [kind |-> kind, start |-> start]
PostBodies == {Body(k, 0) : k \in {"initialize", "initBatch", "other"}}
              \cup {Body("countdown", s) : s \in StartInputs}
NoBody == Body("none", 0)

VARIABLES
    transports,       \* server.ts:193  session id -> transport (0: no entry)
    serverTransport,  \* the one McpServer's current transport (0: none)
    tCount,           \* transports constructed so far
    uuidCount,        \* session ids generated so far
    tSession,         \* transport.sessionId (0: undefined)
    tClosed,          \* the transport has signalled close
    tSent,            \* notifications handed to transport.send, in order,
                      \* kept apart by the tool call they belong to
    initPc,           \* position of the initialize handler that made transport t
    initBody,         \* body of that initialize POST
    initSid,          \* the `sessionId` local of that handler call (its header)
    tmCount,          \* intervals created so far
    tmSid,            \* sessionId captured by the countdown closure
    tmCaller,         \* session id header of the POST that made the tool call
    tmStart,          \* start argument
    tmCurrent,        \* the closure's `current`
    tmActive,         \* interval not yet cleared
    ticks,            \* suspended callbacks of the interval
    tmMiss,           \* a callback of this interval found no transport
    unhandled,        \* an async callback rejected with nobody awaiting it
    crashed,          \* the process died on an unhandled rejection
    removedIds,       \* session ids deleted from `transports` so far
    reRegistered,     \* an id in removedIds was registered again
    observing,        \* requests and their answers are being recorded
    lastReq,          \* the request answered most recently
    lastResp          \* and its answer

VARIABLES
    pc,               \* sandbox.ts: position of the proxy script
    isTop,            \* window.self === window.top
    referrer,         \* document.referrer
    topAlert,         \* what window.top.alert(...) does: "returns" or "throws"
    innerExists,      \* the inner iframe was created and appended
    innerSandbox,     \* its sandbox attribute
    innerSrcdoc,      \* its srcdoc
    listening,        \* the message listener is installed
    toParent,         \* data posted to window.parent, in order
    toInner,          \* data posted to inner.contentWindow, in order
    fromParent,       \* data of the message events whose source was the parent
    fromInner,        \* ... whose source was the inner frame's window
    fromOther         \* number of message events from any other source

VARIABLES
    cspPc,            \* position of the CSP injection under test
    cspArg,           \* params.csp of the control message
    htmlArg,          \* params.html of the control message
    cspTag,           \* what buildCspMetaTag(csp) returned
    cspTagAgain,      \* what a second call with the same argument returned
    cspDoc            \* modifiedHtml as assigned to inner.srcdoc

proxyVars == <<pc, isTop, referrer, topAlert, innerExists, innerSandbox, innerSrcdoc,
               listening, toParent, toInner, fromParent, fromInner, fromOther>>

serverVars == <<transports, serverTransport, tCount, uuidCount, tSession, tClosed,
                tSent, initPc, initBody, initSid, tmCount, tmSid, tmCaller, tmStart,
                tmCurrent, tmActive, ticks, tmMiss, unhandled,
                crashed, removedIds, reRegistered, observing, lastReq, lastResp>>

regVars == <<transports, removedIds, reRegistered>>
trVars == <<tCount, uuidCount, tSession, tClosed, initPc, initBody, initSid>>
tmVars == <<tmCount, tmSid, tmCaller, tmStart, tmCurrent, tmActive, ticks, tmMiss>>
procVars == <<unhandled, crashed>>
obsVars == <<observing, lastReq, lastResp>>

VARIABLES
    hConnected,       \* mcpClient.clients has an entry for server.id
    hToolChanges,     \* ToolWindow.tsx:141  tool changes of the window so far
    hToolHasUi,       \* getToolUiResourceUri(tool) is defined (hasUiResource)
    hExecution,       \* ToolWindow state `execution`: its status, "none" for null
    hInfo,            \* ToolWindow state `toolCallInfo`: invocation number, 0 for null
    hExecCount,       \* handleExecute calls so far
    hStarted,         \* per invocation: what handleExecute started, in order
    hResult,          \* per invocation: state of resultPromise
    hError,           \* what a rejected resultPromise of this run rejected with
    hResource,        \* per invocation: state of appResourcePromise
    hExecPc,          \* per invocation: handleExecute suspended at line 275 or not
    hPanel,           \* the iframe of the mounted AppIFramePanel, 0 when none
    hIframeCount,     \* iframe elements created so far
    hEffectDue,       \* runs of the panel effect not yet executed
    hSrc,             \* per iframe: iframe.src is set
    hSandbox,         \* per iframe: its sandbox attribute
    hListeners,       \* per iframe: message listeners of loadSandboxProxy installed
    hLoadTrue,        \* per iframe: loadSandboxProxy promises resolved to true
    hLoadFalse,       \* per iframe: ... resolved to false
    hFirstTime,       \* per iframe: then-callbacks with firstTime = true not yet run
    hLoadInfo,        \* per iframe: toolCallInfo captured by the effect closure
    hReadyFrom,       \* per iframe: its own window has posted the proxy-ready notice
    hBridges,         \* per iframe: App Bridges created
    hHandlers,        \* per iframe: handlers set on the bridge
    hAtConnect,       \* per iframe: handlers that were set when connect() was called
    hConnect,         \* per iframe: state of the connect() promise
    hPc,              \* per iframe: position of initializeApp
    hBridgeInfo,      \* per iframe: invocation passed to initializeApp
    hToGuest,         \* per iframe: notifications sent through the bridge
    hOnInit,          \* per iframe: what appBridge.oninitialized currently is
    hInitEvents,      \* per iframe: initialized notifications received
    hInitResolved,    \* per iframe: calls of the hook promise's resolve
    hOrigCalls,       \* per iframe: times the event was passed to the original handler
    hAttached         \* per invocation: times resultPromise.then(...) was called

VARIABLES
    inFlight          \* per session: requests suspended inside transport.handleRequest

VARIABLES
    resPc,            \* position of the getUiResource call under test
    resConnected,     \* this.clients has the server id
    resRead,          \* what client.readResource settles with
    resOut            \* what getUiResource settles with

cspVars == <<cspPc, cspArg, htmlArg, cspTag, cspTagAgain, cspDoc>>

hostEnv == <<hConnected, hToolHasUi, hToolChanges, hError>>
windowVars == <<hExecution, hInfo, hExecCount, hExecPc>>
callVars == <<hStarted, hResult, hResource>>
panelVars == <<hPanel, hIframeCount, hEffectDue>>
loadVars == <<hSrc, hSandbox, hListeners, hLoadTrue, hLoadFalse, hFirstTime, hLoadInfo,
             hReadyFrom>>
bridgeVars == <<hBridges, hHandlers, hAtConnect, hConnect, hPc, hBridgeInfo, hToGuest,
                hAttached>>
initVars == <<hOnInit, hInitEvents, hInitResolved, hOrigCalls>>
hostVars == <<hostEnv, windowVars, callVars, panelVars, loadVars, bridgeVars, initVars>>
concVars == <<inFlight>>

VARIABLES
    cStatus,          \* MCPContext state: status of each server of the dashboard
    cClients,         \* mcpClient.clients has an entry for the server id
    cPc,              \* per server: where the dashboard's connect/disconnect action is
    cError            \* per server: the onerror handler's disconnect awaits client.close()

connVars == <<cStatus, cClients, cPc, cError>>
resVars == <<resPc, resConnected, resRead, resOut>>

\* what the actions of one part leave alone
notServer == <<proxyVars, cspVars, hostVars, concVars, resVars, connVars>>
notProxy == <<serverVars, cspVars, hostVars, concVars, resVars, connVars>>
notCsp == <<serverVars, proxyVars, hostVars, concVars, resVars, connVars>>
notHost == <<serverVars, proxyVars, cspVars, concVars, resVars, connVars>>
notConc == <<serverVars, proxyVars, cspVars, hostVars, resVars, connVars>>
notRes == <<serverVars, proxyVars, cspVars, hostVars, concVars, connVars>>
notConn == <<serverVars, proxyVars, cspVars, hostVars, concVars, resVars>>

vars == <<serverVars, proxyVars, cspVars, hostVars, concVars, resVars, connVars>>

\* ------------------------------------------------------------- responses
\* createErrorResponse(message) sent with res.status(400).json(...)
InvalidSessionError ==
    [status |-> 400, kind |-> "jsonrpc-error", code |-> -32000,
     message |-> "Bad Request: invalid session ID or method."]

\* server.ts:263: createErrorResponse("Internal server error.") with 500
InternalServerError ==
    [status |-> 500, kind |-> "jsonrpc-error", code |-> -32000,
     message |-> "Internal server error."]

\* res.status(400).send('Invalid or missing session ID')
DeleteInvalidSession ==
    [status |-> 400, kind |-> "text", code |-> 0,
     message |-> "Invalid or missing session ID"]

\* Express answers a method the router has no route for
NoRoute ==
    [status |-> 404, kind |-> "text", code |-> 0, message |-> "Cannot DELETE /mcp"]

\* whatever transport.handleRequest(req, res, body) writes to res
TransportReply(status, what) ==
    [status |-> status, kind |-> "transport", code |-> 0, message |-> what]

NoRequest == [method |-> "none", header |-> "missing", sid |-> 0, body |-> "none"]

\* a value that is not a string (undefined, a number, an object)
NoValue == <<"#undefined">>

\* ---------------------------------------------------------------- helpers
\* a generator that hands out the same id again
randomUUIDRepeats(n) == 1

\* sessionIdGenerator: () => randomUUID(); the n-th call yields a fresh value
randomUUID(n) == n

\* true of an initialize message and of an array with one among its elements
isInitializeRequest(body) == body.kind \in {"initialize", "initBatch"}

\* a create branch that does not look at the session header
CreateBranchIgnoresHeader(sid, body) == isInitializeRequest(body)

\* server.ts:231: `!sessionId && isInitializeRequest(req.body)`
CreateBranch(sid, body) == sid = 0 /\ isInitializeRequest(body)

Known(sid) == sid # 0 /\ transports[sid] # 0

RemoveAt(s, i) == SubSeq(s, 1, i - 1) \o SubSeq(s, i + 1, Len(s))

\* A request is answered.  What is recorded: its method, its session header
\* (the id itself only when it names a registered session), the kind of its
\* body, and the answer.
Answer(method, sid, body, resp) ==
    /\ UNCHANGED observing
    /\ IF observing
       THEN /\ lastReq' = [method |-> method,
                           header |-> IF sid = 0 THEN "missing"
                                      ELSE IF Known(sid) THEN "registered"
                                      ELSE "unknown",
                           sid |-> IF Known(sid) THEN sid ELSE 0,
                           body |-> body.kind]
            /\ lastResp' = resp
       ELSE UNCHANGED <<lastReq, lastResp>>

\* ------------------------------------------------------------------- Init
ServerInit ==
    /\ transports = [s \in SessionIds |-> 0]
    /\ serverTransport = 0
    /\ tCount = 0
    /\ uuidCount = 0
    /\ tSession = [t \in Tids |-> 0]
    /\ tClosed = [t \in Tids |-> FALSE]
    /\ tSent = [t \in Tids |-> [m \in Tms |-> <<>>]]
    /\ initPc = [t \in Tids |-> "none"]
    /\ initBody = [t \in Tids |-> NoBody]
    /\ initSid = [t \in Tids |-> 0]
    /\ tmCount = 0
    /\ tmSid = [m \in Tms |-> 0]
    /\ tmCaller = [m \in Tms |-> 0]
    /\ tmStart = [m \in Tms |-> 0]
    /\ tmCurrent = [m \in Tms |-> 0]
    /\ tmActive = [m \in Tms |-> FALSE]
    /\ ticks = [m \in Tms |-> <<>>]
    /\ tmMiss = [m \in Tms |-> FALSE]
    /\ unhandled = FALSE
    /\ crashed = FALSE
    /\ removedIds = {}
    /\ reRegistered = FALSE
    /\ lastReq = NoRequest
    /\ lastResp = TransportReply(0, "none")

\* no CSP injection under test
CspIdle ==
    /\ cspPc = "idle"
    /\ cspArg = NoValue
    /\ htmlArg = NoValue
    /\ cspTag = NoValue
    /\ cspTagAgain = NoValue
    /\ cspDoc = NoValue

\* A rejection value of the tool call: an Error, or an object that is not
\* an Error although it has a message property.
ErrorValue(isError, message, str) == [isError |-> isError, message |-> message, str |-> str]
NoMessage == "#undefined"
ErrorValues == {ErrorValue(TRUE, "boom", "Error: boom"),
                ErrorValue(FALSE, "boom", "[object Object]")}
NoError == ErrorValue(FALSE, NoMessage, NoMessage)

\* Invocations of handleExecute and iframe elements of one tool window: a
\* panel is mounted by an invocation, so there are no more iframes than those.
Execs == 1..MaxExec
Iframes == 1..MaxExec

\* The tool window before its first Execute click.
HostStart ==
    /\ hToolChanges = 0
    /\ hExecution = "none"
    /\ hInfo = 0
    /\ hExecCount = 0
    /\ hStarted = [i \in Execs |-> <<>>]
    /\ hResult = [i \in Execs |-> "none"]
    /\ hResource = [i \in Execs |-> "none"]
    /\ hExecPc = [i \in Execs |-> "none"]
    /\ hPanel = 0
    /\ hIframeCount = 0
    /\ hEffectDue = 0
    /\ hSrc = [f \in Iframes |-> FALSE]
    /\ hSandbox = [f \in Iframes |-> <<>>]
    /\ hListeners = [f \in Iframes |-> 0]
    /\ hLoadTrue = [f \in Iframes |-> 0]
    /\ hLoadFalse = [f \in Iframes |-> 0]
    /\ hFirstTime = [f \in Iframes |-> 0]
    /\ hLoadInfo = [f \in Iframes |-> 0]
    /\ hReadyFrom = [f \in Iframes |-> FALSE]
    /\ hBridges = [f \in Iframes |-> 0]
    /\ hHandlers = [f \in Iframes |-> {}]
    /\ hAtConnect = [f \in Iframes |-> {}]
    /\ hConnect = [f \in Iframes |-> "none"]
    /\ hPc = [f \in Iframes |-> "none"]
    /\ hBridgeInfo = [f \in Iframes |-> 0]
    /\ hToGuest = [f \in Iframes |-> <<>>]
    /\ hOnInit = [f \in Iframes |-> "original"]
    /\ hInitEvents = [f \in Iframes |-> 0]
    /\ hInitResolved = [f \in Iframes |-> 0]
    /\ hOrigCalls = [f \in Iframes |-> 0]
    /\ hAttached = [i \in Execs |-> 0]

\* no tool window open
HostIdle ==
    /\ hConnected = FALSE
    /\ hError = NoError
    /\ hToolHasUi = FALSE
    /\ HostStart

\* no request inside a transport
ConcIdle == inFlight = [s \in SessionIds |-> <<>>]

\* no getUiResource call under test
\* What client.readResource gives back: a rejection, no result object, or a
\* result with its content parts.
ReadOutcome(kind, contents) == [kind |-> kind, contents |-> contents]
NoRead == ReadOutcome("none", <<>>)
\* What getUiResource gives back: UiResourceData, or the error it throws.
UiResourceData(html, csp) == [status |-> "ok", error |-> NoMessage, html |-> html, csp |-> csp]
Failure(message) == [status |-> "error", error |-> message, html |-> NoValue, csp |-> NoValue]
NoOutcome == [status |-> "none", error |-> NoMessage, html |-> NoValue, csp |-> NoValue]

\* MCPContext.tsx:20-33 initialState and mcpClient.ts:16: every server is
\* disconnected and the client service holds no client
Servers == 1..MaxServers
ConnIdle ==
    /\ cStatus = [id \in Servers |-> "disconnected"]
    /\ cClients = [id \in Servers |-> FALSE]
    /\ cPc = [id \in Servers |-> "idle"]
    /\ cError = [id \in Servers |-> FALSE]

ResIdle ==
    /\ resPc = "idle"
    /\ resConnected = FALSE
    /\ resRead = NoRead
    /\ resOut = NoOutcome

\* The proxy script has not started; its environment is fixed.
ProxyIdle ==
    /\ pc = "start"
    /\ isTop = FALSE
    /\ referrer = <<>>
    /\ topAlert = "throws"
    /\ innerExists = FALSE
    /\ innerSandbox = <<>>
    /\ innerSrcdoc = NoValue
    /\ listening = FALSE
    /\ toParent = <<>>
    /\ toInner = <<>>
    /\ fromParent = <<>>
    /\ fromInner = <<>>
    /\ fromOther = 0

\* The whole server, timers included; requests are not recorded.
Init ==
    /\ ServerInit
    /\ observing = FALSE
    /\ ProxyIdle
    /\ CspIdle
    /\ HostIdle
    /\ ConcIdle
    /\ ResIdle
    /\ ConnIdle

\* The HTTP surface with every answer recorded, over the behaviours in which
\* no interval period has elapsed yet.
InitHttp ==
    /\ ServerInit
    /\ observing = TRUE
    /\ ProxyIdle
    /\ CspIdle
    /\ HostIdle
    /\ ConcIdle
    /\ ResIdle
    /\ ConnIdle

\* ------------------------------------------------- transport close / error
\* transport.onclose as wrapped by server.connect: first the handler of
\* server.ts:238-244, then the server's own close handling, which drops the
\* server's current transport.
CloseEffects(t) ==
    LET sid == tSession[t] IN
    /\ tClosed' = [tClosed EXCEPT ![t] = TRUE]
    /\ IF sid # 0 /\ transports[sid] # 0
       THEN /\ transports' = [transports EXCEPT ![sid] = 0]
            /\ removedIds' = removedIds \cup {sid}
       ELSE UNCHANGED <<transports, removedIds>>
    /\ serverTransport' = 0
    /\ UNCHANGED <<reRegistered, tCount, uuidCount, tSession, initPc, initBody, initSid>>

\* The transport signals close (client gone, protocol error, close()).
TransportClose(t) ==
    /\ ~crashed
    /\ initPc[t] \in {"handled", "done"}
    /\ ~tClosed[t]
    /\ CloseEffects(t)
    /\ UNCHANGED <<tSent, tmVars, procVars, obsVars, notServer>>

\* ------------------------------------------------------ POST /mcp handler
\* server.ts:231-245: no session header and an initialize body: construct
\* the transport, set onclose, and connect the one server to it.  The server
\* object keeps one current transport.  What connect does while the server
\* still has one depends on the installed release of the protocol library:
\* it either replaces the current transport or throws, and a throw lands in
\* the handler's catch (server.ts:261-265).  Both outcomes are possible.
PostCreate(sid, body) ==
    /\ ~crashed
    /\ ~Known(sid)
    /\ CreateBranch(sid, body)
    /\ \/ /\ tCount < MaxTransports
          /\ LET t == tCount + 1 IN
             /\ tCount' = t
             /\ serverTransport' = t
             /\ initPc' = [initPc EXCEPT ![t] = "connected"]
             /\ initBody' = [initBody EXCEPT ![t] = body]
             /\ initSid' = [initSid EXCEPT ![t] = sid]
          /\ UNCHANGED <<uuidCount, tSession, tClosed, obsVars>>
       \/ /\ serverTransport # 0
          /\ Answer("POST", sid, body, InternalServerError)
          /\ UNCHANGED <<serverTransport, trVars>>
    /\ UNCHANGED <<regVars, tSent, tmVars, procVars, notServer>>

\* server.ts:246: transport.handleRequest of the initialize POST.  A single
\* initialize message makes the transport generate its session id and answer
\* with it; a batch is answered 400 and leaves sessionId undefined.
InitHandleRequest(t) ==
    /\ ~crashed
    /\ initPc[t] = "connected"
    /\ initPc' = [initPc EXCEPT ![t] = "handled"]
    /\ initBody' = [initBody EXCEPT ![t] = NoBody]
    /\ IF initBody[t].kind = "initialize"
       THEN /\ uuidCount' = uuidCount + 1
            /\ tSession' = [tSession EXCEPT ![t] = randomUUID(uuidCount + 1)]
            /\ Answer("POST", initSid[t], initBody[t], TransportReply(200, "initialize-result"))
       ELSE /\ UNCHANGED <<uuidCount, tSession>>
            /\ Answer("POST", initSid[t], initBody[t], TransportReply(400, "one-initialize-only"))
    /\ UNCHANGED <<regVars, serverTransport, tCount, tClosed, initSid, tSent, tmVars,
                   procVars, notServer>>

\* server.ts:250-255: register the transport under its session id.
InitRegister(t) ==
    /\ ~crashed
    /\ initPc[t] = "handled"
    /\ initPc' = [initPc EXCEPT ![t] = "done"]
    /\ LET sessionId == tSession[t] IN
       IF sessionId # 0
       THEN /\ transports' = [transports EXCEPT ![sessionId] = t]
            /\ reRegistered' = (reRegistered \/ sessionId \in removedIds)
       ELSE UNCHANGED <<transports, reRegistered>>
    /\ UNCHANGED <<removedIds, serverTransport, tCount, uuidCount, tSession, tClosed,
                   initBody, initSid, tSent, tmVars, procVars, obsVars, notServer>>

\* countdownCB (server.ts:110-159) behind the SDK's argument validation.
\* extra.sessionId and extra.sendNotification come from the server's current
\* transport, the one most recently passed to server.connect.
ExtraSessionId == IF serverTransport = 0 THEN 0 ELSE tSession[serverTransport]

\* server.ts:104 z.number().min(1).max(3600); part_012:247 the same range
ValidStartNoUpperBound(start) == start # NoStart /\ start >= MinStartAllowed
ValidStart(start) == start # NoStart /\ start >= MinStartAllowed /\ start <= MaxStartAllowed

Notif(kind, tm, val) == [kind |-> kind, tm |-> tm, val |-> val]

countdownCB(sid, body) ==
    IF ~ValidStart(body.start)
    THEN /\ Answer("POST", sid, body, TransportReply(200, "invalid-arguments"))
         /\ UNCHANGED <<tSent, tmVars>>
    ELSE IF ExtraSessionId = 0
    THEN /\ Answer("POST", sid, body, TransportReply(200, "session-id-required"))
         /\ UNCHANGED <<tSent, tmVars>>
    ELSE /\ tmCount < MaxTimers
         /\ LET tm == tmCount + 1 IN
            /\ tmCount' = tm
            /\ tmSid' = [tmSid EXCEPT ![tm] = ExtraSessionId]
            /\ tmCaller' = [tmCaller EXCEPT ![tm] = sid]
            /\ tmStart' = [tmStart EXCEPT ![tm] = body.start]
            /\ tmCurrent' = [tmCurrent EXCEPT ![tm] = body.start]
            /\ tmActive' = [tmActive EXCEPT ![tm] = TRUE]
            /\ tSent' = [tSent EXCEPT ![serverTransport][tm] =
                            Append(@, Notif("start", tm, body.start))]
         /\ Answer("POST", sid, body, TransportReply(200, "ack"))
         /\ UNCHANGED <<ticks, tmMiss>>

\* server.ts:224-228: a registered session id: forward to its transport.
PostReuse(sid, body) ==
    /\ ~crashed
    /\ Known(sid)
    /\ CASE body.kind = "countdown" -> countdownCB(sid, body)
         [] isInitializeRequest(body) ->
              /\ Answer("POST", sid, body, TransportReply(400, "already-initialized"))
              /\ UNCHANGED <<tSent, tmVars>>
         [] OTHER ->
              /\ Answer("POST", sid, body, TransportReply(200, "ok"))
              /\ UNCHANGED <<tSent, tmVars>>
    /\ UNCHANGED <<regVars, serverTransport, trVars, procVars, notServer>>

\* server.ts:258: neither branch applies.
PostReject(sid, body) ==
    /\ ~crashed
    /\ ~Known(sid)
    /\ ~CreateBranch(sid, body)
    /\ Answer("POST", sid, body, InvalidSessionError)
    /\ UNCHANGED <<regVars, serverTransport, trVars, tSent, tmVars, procVars, notServer>>

handlePostRequest ==
    \E sid \in HeaderIds, body \in PostBodies :
        \/ PostReuse(sid, body)
        \/ PostCreate(sid, body)
        \/ PostReject(sid, body)

\* ------------------------------------------------------- GET /mcp handler
handleGetRequest ==
    \E sid \in HeaderIds :
        /\ ~crashed
        /\ IF Known(sid)
           THEN Answer("GET", sid, NoBody, TransportReply(200, "sse-stream"))
           ELSE Answer("GET", sid, NoBody, InvalidSessionError)
        /\ UNCHANGED <<regVars, serverTransport, trVars, tSent, tmVars, procVars, notServer>>

\* ---------------------------------------------------- DELETE /mcp, router
\* The router (server.ts:332-348) mounts POST and GET only.
RouterDelete ==
    \E sid \in HeaderIds :
        /\ ~crashed
        /\ Answer("DELETE", sid, NoBody, NoRoute)
        /\ UNCHANGED <<regVars, serverTransport, trVars, tSent, tmVars, procVars, notServer>>

\* server.ts:269-287: the DELETE handler.  It is exported but the router
\* never calls it; it is part of no specification below.
handleDeleteRequest ==
    \E sid \in HeaderIds :
        /\ ~crashed
        /\ IF Known(sid)
           THEN /\ CloseEffects(transports[sid])
                /\ Answer("DELETE", sid, NoBody, TransportReply(200, "session-closed"))
           ELSE /\ Answer("DELETE", sid, NoBody, DeleteInvalidSession)
                /\ UNCHANGED <<regVars, serverTransport, trVars>>
        /\ UNCHANGED <<tSent, tmVars, procVars, notServer>>

\* -------------------------------------------- countdown interval callback
\* An unhandled rejection: node ends the process (the default mode,
\* --unhandled-rejections=throw) or logs it and goes on (warn mode).
Reject ==
    /\ unhandled' = TRUE
    /\ crashed' \in BOOLEAN

\* server.ts:127-135: the callback fires: it reads transports[sessionId] and
\* calls sendNotificationByTransport(transport, message), then awaits it.
\* With no entry, transport is undefined and transport.send throws a
\* TypeError inside the async callback, whose promise nobody awaits.
TickStart(tm) ==
    /\ ~crashed
    /\ tmActive[tm]
    /\ Len(ticks[tm]) < MaxOverlap
    /\ LET transport == transports[tmSid[tm]] IN
       IF transport = 0
       THEN /\ tmMiss' = [tmMiss EXCEPT ![tm] = TRUE]
            /\ Reject
            /\ UNCHANGED <<tSent, ticks>>
       ELSE /\ tSent' = [tSent EXCEPT ![transport][tm] =
                            Append(@, Notif("tick", tm, tmCurrent[tm]))]
            /\ ticks' = [ticks EXCEPT ![tm] =
                            Append(@, [transport |-> transport, pc |-> "sendTick"])]
            /\ UNCHANGED <<tmMiss, procVars>>
    /\ UNCHANGED <<regVars, serverTransport, trVars, tmCount, tmSid, tmCaller, tmStart,
                   tmCurrent, tmActive, obsVars, notServer>>

\* server.ts:137-149: the first await returns: current--, and below zero
\* clearInterval and the completion notice on the transport read at the
\* start of this callback.
TickResumeDropsSession(tm, i) ==
    /\ ~crashed
    /\ i \in 1..Len(ticks[tm])
    /\ ticks[tm][i].pc = "sendTick"
    /\ LET current == tmCurrent[tm] - 1
           transport == ticks[tm][i].transport IN
       /\ tmCurrent' = [tmCurrent EXCEPT ![tm] = current]
       /\ IF current < 0
          THEN /\ tmActive' = [tmActive EXCEPT ![tm] = FALSE]
               /\ tSent' = [tSent EXCEPT ![transport][tm] =
                               Append(@, Notif("done", tm, 0))]
               /\ ticks' = [ticks EXCEPT ![tm][i].pc = "sendDone"]
               /\ transports' = [transports EXCEPT ![tmSid[tm]] = 0]
          ELSE /\ ticks' = [ticks EXCEPT ![tm] = RemoveAt(@, i)]
               /\ UNCHANGED <<tmActive, tSent, transports>>
    /\ UNCHANGED <<removedIds, reRegistered, serverTransport, trVars, tmCount, tmSid,
                   tmCaller, tmStart, tmMiss, procVars, obsVars, notServer>>
TickResume(tm, i) ==
    /\ ~crashed
    /\ i \in 1..Len(ticks[tm])
    /\ ticks[tm][i].pc = "sendTick"
    /\ LET current == tmCurrent[tm] - 1
           transport == ticks[tm][i].transport IN
       /\ tmCurrent' = [tmCurrent EXCEPT ![tm] = current]
       /\ IF current < 0
          THEN /\ tmActive' = [tmActive EXCEPT ![tm] = FALSE]
               /\ tSent' = [tSent EXCEPT ![transport][tm] =
                               Append(@, Notif("done", tm, 0))]
               /\ ticks' = [ticks EXCEPT ![tm][i].pc = "sendDone"]
          ELSE /\ ticks' = [ticks EXCEPT ![tm] = RemoveAt(@, i)]
               /\ UNCHANGED <<tmActive, tSent>>
    /\ UNCHANGED <<regVars, serverTransport, trVars, tmCount, tmSid, tmCaller, tmStart,
                   tmMiss, procVars, obsVars, notServer>>

\* server.ts:148-149: the second await returns and the callback ends.
TickFinish(tm, i) ==
    /\ ~crashed
    /\ i \in 1..Len(ticks[tm])
    /\ ticks[tm][i].pc = "sendDone"
    /\ ticks' = [ticks EXCEPT ![tm] = RemoveAt(@, i)]
    /\ UNCHANGED <<regVars, serverTransport, trVars, tSent, tmCount, tmSid, tmCaller,
                   tmStart, tmCurrent, tmActive, tmMiss, procVars, obsVars, notServer>>

\* ======================================================= sandbox proxy
\* Message data: null, or an object with a method; params matter only for
\* the resource-ready control message.
\* an absent list of strings
NoList == <<NoValue>>
NoCsp == [given |-> FALSE, connectDomains |-> NoList, resourceDomains |-> NoList]
Params(html, sandbox, csp) == [html |-> html, sandbox |-> sandbox, csp |-> csp]
NoParams == Params(NoValue, NoValue, NoCsp)
Data(method, id, params) == [method |-> method, id |-> id, params |-> params]
NullData == Data("#null", 0, NoParams)

RESOURCE_READY_NOTIFICATION == "ui/notifications/sandbox-resource-ready"
PROXY_READY_NOTIFICATION == "ui/notifications/sandbox-proxy-ready"
ProxyReady == Data(PROXY_READY_NOTIFICATION, 0, NoParams)

\* Guest documents as token sequences.
DocHead == <<"<html>", "<head>", "<title>", "</head>", "<body>">>
DocHeadAttr == <<"<html>", "<head lang>", "</head>", "<body>">>
DocNoHead == <<"<p>">>
HtmlInputs == {DocHead, DocHeadAttr, DocNoHead, NoValue}

\* A domain string is the sequence of its tokens; a list of domains is a
\* sequence of such strings.
ApiDomain == <<"https://api.example">>
CdnDomain == <<"https://cdn.example">>
CspFull == [given |-> TRUE, connectDomains |-> <<ApiDomain>>,
            resourceDomains |-> <<CdnDomain>>]
CspEmpty == [given |-> TRUE, connectDomains |-> NoList, resourceDomains |-> NoList]
CspInputs == {NoCsp, CspEmpty, CspFull}

DefaultSandbox == <<"allow-scripts", "allow-same-origin", "allow-forms">>
SandboxInputs == {NoValue, <<"allow-scripts">>}

ResourceReadyInputs ==
    {Data(RESOURCE_READY_NOTIFICATION, 0, Params(h, sb, c)) :
        h \in HtmlInputs, sb \in SandboxInputs, c \in CspInputs}
OtherInputs == {NullData, Data("tools/call", 1, NoParams), Data("ui/message", 2, NoParams)}
ParentInputs == ResourceReadyInputs \cup OtherInputs
GuestInputs == OtherInputs \cup {ProxyReady,
                 Data(RESOURCE_READY_NOTIFICATION, 0, Params(DocNoHead, NoValue, NoCsp))}

\* document.referrer as tokens; <<>> is the empty string.
ReferrerInputs ==
    { <<>>,
      <<"https://", "localhost", ":", "5173">>,
      <<"http://", "app", ".mcpos.local">>,
      <<"https://", "localhost", "evil.example">>,
      <<"https://", "evil.example", "/">> }

\* ALLOWED_REFERRER_PATTERN = /^https?:\/\/(localhost|127\.0\.0\.1|.*\.mcpos\.local)(:|\/|$)/
EndsHost(r, k) == k = Len(r) \/ r[k + 1] \in {":", "/"}
MatchesAllowedReferrer(r) ==
    /\ Len(r) >= 2
    /\ r[1] \in {"http://", "https://"}
    /\ \/ r[2] \in {"localhost", "127.0.0.1"} /\ EndsHost(r, 2)
       \/ \E k \in 2..Len(r) : r[k] = ".mcpos.local" /\ EndsHost(r, k)

\* Array.prototype.join(" "): the strings one after the other
RECURSIVE Join(_)
Join(strings) == IF strings = <<>> THEN <<>> ELSE Head(strings) \o Join(Tail(strings))

\* domains?.join(" ") ?? ""
JoinDomains(domains) == IF domains = NoList THEN <<>> ELSE Join(domains)

\* buildCspMetaTag (sandbox.ts:77-95): the directives, joined by "; ",
\* inside the meta element.
Directives(csp) ==
    LET resourceDomains == JoinDomains(csp.resourceDomains)
        connectDomains == JoinDomains(csp.connectDomains) IN
    << <<"default-src", "'self'">>,
       <<"script-src", "'self'", "'unsafe-inline'", "'unsafe-eval'", "blob:", "data:">>
           \o resourceDomains,
       <<"style-src", "'self'", "'unsafe-inline'", "blob:", "data:">> \o resourceDomains,
       <<"img-src", "'self'", "data:", "blob:">> \o resourceDomains,
       <<"font-src", "'self'", "data:", "blob:">> \o resourceDomains,
       <<"connect-src", "'self'">> \o connectDomains,
       <<"frame-src", "'none'">>,
       <<"object-src", "'none'">>,
       <<"base-uri", "'self'">> >>

RECURSIVE JoinDirectives(_)
JoinDirectives(ds) ==
    IF Len(ds) = 0 THEN <<>>
    ELSE IF Len(ds) = 1 THEN ds[1]
    ELSE ds[1] \o <<";">> \o JoinDirectives(Tail(ds))

\* a build that keeps what it built before and puts it in front
buildCspMetaTagRemembers(csp) ==
    (IF cspTag = NoValue THEN <<>> ELSE cspTag)
        \o <<"<meta http-equiv=Content-Security-Policy content=">>
        \o JoinDirectives(Directives(csp)) \o <<">">>

buildCspMetaTag(csp) ==
    <<"<meta http-equiv=Content-Security-Policy content=">>
        \o JoinDirectives(Directives(csp)) \o <<">">>

\* first position of a token that satisfies Test, 0 when there is none
FirstIndex(html, Test(_)) ==
    IF \E i \in 1..Len(html) : Test(html[i])
    THEN CHOOSE i \in 1..Len(html) :
            Test(html[i]) /\ \A j \in 1..(i - 1) : ~Test(html[j])
    ELSE 0

IsHead(tok) == tok = "<head>"
IsHeadWithAttrs(tok) == tok = "<head lang>"
\* what /<head[^>]*>/ matches
MatchesHeadRegex(tok) == tok \in {"<head>", "<head lang>", "<header>"}

InsertAfter(html, i, piece) == SubSeq(html, 1, i) \o piece \o SubSeq(html, i + 1, Len(html))

\* sandbox.ts:129-147
InjectCsp(html, csp) ==
    IF ~csp.given THEN html
    ELSE LET cspMetaTag == buildCspMetaTag(csp) IN
         IF FirstIndex(html, IsHead) # 0
         THEN InsertAfter(html, FirstIndex(html, IsHead), cspMetaTag)
         ELSE IF FirstIndex(html, IsHeadWithAttrs) # 0
         THEN InsertAfter(html, FirstIndex(html, MatchesHeadRegex), cspMetaTag)
         ELSE cspMetaTag \o html

\* The proxy starts in some embedding.
ProxyInit ==
    /\ pc = "start"
    /\ isTop \in BOOLEAN
    /\ referrer \in ReferrerInputs
    /\ topAlert \in {"returns", "throws"}
    /\ innerExists = FALSE
    /\ innerSandbox = <<>>
    /\ innerSrcdoc = NoValue
    /\ listening = FALSE
    /\ toParent = <<>>
    /\ toInner = <<>>
    /\ fromParent = <<>>
    /\ fromInner = <<>>
    /\ fromOther = 0

ProxyEnv == <<isTop, referrer, topAlert>>
ProxyLogs == <<toParent, toInner, fromParent, fromInner, fromOther>>

\* a frame guard that lets a top-level document through
FrameGuardPasses(top) == "referrer"

\* sandbox.ts:28-30: window.self === window.top throws
FrameGuardOutcome(top) == IF top THEN "failed" ELSE "referrer"

GuardFrame ==
    /\ pc = "start"
    /\ pc' = FrameGuardOutcome(isTop)
    /\ UNCHANGED <<ProxyEnv, innerExists, innerSandbox, innerSrcdoc, listening, ProxyLogs,
                   notProxy>>

\* sandbox.ts:33-41
GuardReferrer ==
    /\ pc = "referrer"
    /\ pc' = IF referrer = <<>> \/ ~MatchesAllowedReferrer(referrer)
             THEN "failed" ELSE "selftest"
    /\ UNCHANGED <<ProxyEnv, innerExists, innerSandbox, innerSrcdoc, listening, ProxyLogs,
                   notProxy>>

\* sandbox.ts:46-55: alert on the top window returning makes the try block
\* throw the marker string, which the catch turns into the fatal Error; an
\* exception from the alert itself is swallowed.
\* a catch block that swallows whatever was thrown
SelfTestSwallowsAll(alert) == "createInner"

SelfTestOutcome(alert) ==
    LET e == IF alert = "returns" THEN "SECURITY_TEST_FAILED" ELSE "SecurityError" IN
    IF e = "SECURITY_TEST_FAILED" THEN "failed" ELSE "createInner"

SelfTest ==
    /\ pc = "selftest"
    /\ pc' = SelfTestOutcome(topAlert)
    /\ UNCHANGED <<ProxyEnv, innerExists, innerSandbox, innerSrcdoc, listening, ProxyLogs,
                   notProxy>>

\* sandbox.ts:61-64
CreateInner ==
    /\ pc = "createInner"
    /\ innerExists' = TRUE
    /\ innerSandbox' = DefaultSandbox
    /\ pc' = "listen"
    /\ UNCHANGED <<ProxyEnv, innerSrcdoc, listening, ProxyLogs, notProxy>>

\* sandbox.ts:110
AddListener ==
    /\ pc = "listen"
    /\ listening' = TRUE
    /\ pc' = "announce"
    /\ UNCHANGED <<ProxyEnv, innerExists, innerSandbox, innerSrcdoc, ProxyLogs, notProxy>>

\* a script that announces readiness twice
ReadyPostsTwice == <<ProxyReady, ProxyReady>>

\* sandbox.ts:167-171: the one postMessage at the end of the script
ReadyPosts == <<ProxyReady>>

AnnounceReady ==
    /\ pc = "announce"
    /\ toParent' = toParent \o ReadyPosts
    /\ pc' = "steady"
    /\ UNCHANGED <<ProxyEnv, innerExists, innerSandbox, innerSrcdoc, listening, toInner,
                   fromParent, fromInner, fromOther, notProxy>>

Received == Len(fromParent) + Len(fromInner) + fromOther

\* sandbox.ts:116-152: the resource-ready control message from the parent
LoadResource(data) ==
    LET html == data.params.html
        sandbox == data.params.sandbox
        csp == data.params.csp IN
    /\ innerSandbox' = IF sandbox # NoValue THEN sandbox ELSE innerSandbox
    /\ innerSrcdoc' = IF html # NoValue THEN InjectCsp(html, csp) ELSE innerSrcdoc
    /\ UNCHANGED <<toInner, toParent>>

\* a relay that intercepts nothing
InterceptsNothing(data) == FALSE

\* sandbox.ts:116
IsResourceReady(data) == data # NullData /\ data.method = RESOURCE_READY_NOTIFICATION

\* a listener that takes every window other than the parent for the guest
AnySourceIsInner(source) == source # "parent"

\* sandbox.ts:159: event.source === inner.contentWindow
FromInnerWindow(source) == source = "inner"

\* a relay that puts the newest message in front of the ones still queued
PostMessageNewestFirst(queue, data) == <<data>> \o queue

\* sandbox.ts:155, 161: postMessage queues event.data for the target window
\* behind what was posted to it before
PostMessage(queue, data) == Append(queue, data)

\* sandbox.ts:110-163: the listener's body for one message event, by the
\* window the event came from.
Listener(source, data) ==
    IF source = "parent"
    THEN IF IsResourceReady(data)
         THEN LoadResource(data)
         ELSE /\ toInner' = IF innerExists THEN PostMessage(toInner, data) ELSE toInner
              /\ UNCHANGED <<toParent, innerSandbox, innerSrcdoc>>
    ELSE IF FromInnerWindow(source)
    THEN /\ toParent' = PostMessage(toParent, data)
         /\ UNCHANGED <<toInner, innerSandbox, innerSrcdoc>>
    ELSE UNCHANGED <<toParent, toInner, innerSandbox, innerSrcdoc>>

\* Events are dispatched only once the script has run to its end.
OnParentMessage(data) ==
    /\ pc = "steady" /\ listening
    /\ Received < MaxMsgs
    /\ fromParent' = Append(fromParent, data)
    /\ Listener("parent", data)
    /\ UNCHANGED <<pc, ProxyEnv, innerExists, listening, fromInner, fromOther, notProxy>>

OnGuestMessage(data) ==
    /\ pc = "steady" /\ listening
    /\ innerExists
    /\ Received < MaxMsgs
    /\ fromInner' = Append(fromInner, data)
    /\ Listener("inner", data)
    /\ UNCHANGED <<pc, ProxyEnv, innerExists, listening, fromParent, fromOther, notProxy>>

\* a message from a window that is neither the parent nor the inner frame
OnOtherMessage(data) ==
    /\ pc = "steady" /\ listening
    /\ Received < MaxMsgs
    /\ fromOther' = fromOther + 1
    /\ Listener("other", data)
    /\ UNCHANGED <<pc, ProxyEnv, innerExists, listening, fromParent, fromInner, notProxy>>

NextProxy ==
    \/ GuardFrame
    \/ GuardReferrer
    \/ SelfTest
    \/ CreateInner
    \/ AddListener
    \/ AnnounceReady
    \/ \E data \in ParentInputs : OnParentMessage(data)
    \/ \E data \in GuestInputs : OnGuestMessage(data)
    \/ \E data \in ParentInputs : OnOtherMessage(data)

\* The sandbox proxy alone; the server does not move.
InitProxy ==
    /\ ServerInit
    /\ observing = FALSE
    /\ ProxyInit
    /\ CspIdle
    /\ HostIdle
    /\ ConcIdle
    /\ ResIdle
    /\ ConnIdle

SpecProxy == InitProxy /\ [][NextProxy]_vars

\* ------------------------------------------- CSP injection, call by call
\* params.csp and params.html as the parent may send them.  A domain is any
\* string: InjectingDomain is the one string "https://x.example; frame-src *".
InjectingDomain == <<"https://x.example", ";", "frame-src", "*">>
DomainStrings == {ApiDomain, CdnDomain, InjectingDomain}
DomainLists == {NoList} \cup UNION {[1..n -> DomainStrings] : n \in 0..MaxDomains}
CspArgs ==
    {NoCsp} \cup {[given |-> TRUE, connectDomains |-> c, resourceDomains |-> r] :
                     c \in DomainLists, r \in DomainLists}

DocDoctype == <<"<!DOCTYPE html>", "<body>", "<script>">>
DocLateHead == <<"<script>", "<head>", "</head>", "<body>">>
DocHeaderFirst == <<"<body>", "<header>", "<script>", "<head lang>">>
HtmlArgs == {DocHead, DocHeadAttr, DocNoHead, DocDoctype, DocLateHead, DocHeaderFirst}

CspInit ==
    /\ cspPc = "input"
    /\ cspArg \in CspArgs
    /\ htmlArg \in HtmlArgs
    /\ cspTag = NoValue
    /\ cspTagAgain = NoValue
    /\ cspDoc = NoValue

\* sandbox.ts:77-95, one call
CspBuild ==
    /\ cspPc = "input"
    /\ cspTag' = buildCspMetaTag(cspArg)
    /\ cspPc' = "built"
    /\ UNCHANGED <<cspArg, htmlArg, cspTagAgain, cspDoc, notCsp>>

\* a second call with the same argument
CspBuildAgain ==
    /\ cspPc = "built"
    /\ cspTagAgain' = buildCspMetaTag(cspArg)
    /\ cspPc' = "rebuilt"
    /\ UNCHANGED <<cspArg, htmlArg, cspTag, cspDoc, notCsp>>

\* sandbox.ts:128-150: html is a string; modifiedHtml goes to inner.srcdoc
CspInject ==
    /\ cspPc = "rebuilt"
    /\ cspDoc' = InjectCsp(htmlArg, cspArg)
    /\ cspPc' = "loaded"
    /\ UNCHANGED <<cspArg, htmlArg, cspTag, cspTagAgain, notCsp>>

NextCsp ==
    \/ CspBuild
    \/ CspBuildAgain
    \/ CspInject

InitCsp ==
    /\ ServerInit
    /\ observing = FALSE
    /\ ProxyIdle
    /\ CspInit
    /\ HostIdle
    /\ ConcIdle
    /\ ResIdle
    /\ ConnIdle

SpecCsp == InitCsp /\ [][NextCsp]_vars

\* ------------------------------------------------------------ host side
\* (ui/src/components/ToolWindow.tsx and the sandbox utilities)

\* A notification handed to the App Bridge for the guest.
GuestMsg(method, reason) == [method |-> method, reason |-> reason]
NoReason == "#undefined"
ResourceReadyMsg == GuestMsg("sandbox-resource-ready", NoReason)
ToolInputMsg == GuestMsg("tool-input", NoReason)
ToolResultMsg == GuestMsg("tool-result", NoReason)

\* part_001:110  error instanceof Error ? error.message : String(error)
ReasonAlwaysMessage(error) == error.message
Reason(error) == IF error.isError THEN error.message ELSE error.str

ToolCancelledMsg(error) == GuestMsg("tool-cancelled", Reason(error))

\* part_001:48  the sandbox attribute loadSandboxProxy sets
HostSandbox == <<"allow-scripts", "allow-same-origin", "allow-forms">>

\* part_001:46  if (iframe.src) return Promise.resolve(false)
NeverLoaded(src) == FALSE
AlreadyLoaded(src) == src

\* part_001:130-146  the handlers newAppBridge assigns
NewAppBridgeForgetsSizeChange == {"onmessage", "onopenlink", "onloggingmessage"}
NewAppBridgeHandlers == {"onmessage", "onopenlink", "onloggingmessage", "onsizechange"}

\* part_001:184-188  the hook restores the saved handler when it runs
HookStays == "hook"
HookRestores == "original"

\* part_001:88  what initializeApp awaits before it sends the document
ResourceAndResultAwaited(i) == hResource[i] = "pending" /\ hResult[i] # "pending"
ResourceAwaited(i) == hResource[i] = "pending"

\* React Strict Mode (part_002:13) runs the effects of a newly mounted
\* component twice; a production build runs them once.
MountEffects == {1, 2}

\* The render that follows a state update of toolCallInfo
\* (ToolWindow.tsx:390-391): the panel is there exactly while toolCallInfo
\* carries a resource future; a new panel gets a new iframe element and its
\* effect is due, a panel that stays re-runs its effect when the prop changed.
Render(info) ==
    IF info = 0
    THEN /\ hPanel' = 0
         /\ hEffectDue' = 0
         /\ hIframeCount' = hIframeCount
    ELSE IF hPanel = 0
    THEN /\ hPanel' = hIframeCount + 1
         /\ hIframeCount' = hIframeCount + 1
         /\ hEffectDue' \in MountEffects
    ELSE /\ hPanel' = hPanel
         /\ hIframeCount' = hIframeCount
         /\ hEffectDue' = IF info # hInfo THEN 1 ELSE hEffectDue

\* ToolWindow.tsx:229-298  handleExecute up to its first suspension.  The
\* state updates of the synchronous part are applied together by the render
\* that follows the handler.
HandleExecute ==
    /\ hExecution # "running"
    /\ hEffectDue = 0
    /\ hExecCount < MaxExec
    /\ LET i == hExecCount + 1 IN
       /\ hExecCount' = i
       /\ IF ~hConnected
          THEN /\ hExecution' = "error"
               /\ hInfo' = 0
               /\ Render(0)
               /\ UNCHANGED <<hExecPc, callVars>>
          ELSE IF hToolHasUi
          THEN /\ hStarted' = [hStarted EXCEPT ![i] = <<"callTool", "getUiResource">>]
               /\ hResult' = [hResult EXCEPT ![i] = "pending"]
               /\ hResource' = [hResource EXCEPT ![i] = "pending"]
               /\ hInfo' = i
               /\ Render(i)
               /\ hExecution' = "completed"
               /\ UNCHANGED hExecPc
          ELSE /\ hStarted' = [hStarted EXCEPT ![i] = <<"callTool">>]
               /\ hResult' = [hResult EXCEPT ![i] = "pending"]
               /\ hInfo' = 0
               /\ Render(0)
               /\ hExecution' = "running"
               /\ hExecPc' = [hExecPc EXCEPT ![i] = "awaitResult"]
               /\ UNCHANGED hResource
    /\ UNCHANGED <<hostEnv, loadVars, bridgeVars, initVars, notHost>>

\* ToolWindow.tsx:275-297  handleExecute of a tool without UI after
\* `await resultPromise`
ExecResume(i) ==
    /\ hExecPc[i] = "awaitResult"
    /\ hResult[i] \in {"fulfilled", "rejected"}
    /\ hExecPc' = [hExecPc EXCEPT ![i] = "done"]
    /\ IF hResult[i] = "fulfilled"
       THEN /\ hExecution' = "completed"
            /\ UNCHANGED <<hInfo, panelVars>>
       ELSE /\ hExecution' = "error"
            /\ hInfo' = 0
            /\ Render(0)
    /\ UNCHANGED <<hostEnv, hExecCount, callVars, loadVars, bridgeVars, initVars, notHost>>

\* mcpClient.ts:80-96  the tool call of invocation i settles; a rejection
\* carries the value hError
ResultSettles(i) ==
    /\ hResult[i] = "pending"
    /\ \E r \in {"fulfilled", "rejected"} : hResult' = [hResult EXCEPT ![i] = r]
    /\ UNCHANGED <<hostEnv, windowVars, hStarted, hResource, panelVars, loadVars, bridgeVars,
                   initVars, notHost>>

\* ToolWindow.tsx:300-308  handleStop; the button is rendered only while the
\* execution is running (ToolWindow.tsx:348)
HandleStopClearsIntervals ==
    /\ hExecution = "running"
    /\ hExecution' = "completed"
    /\ hInfo' = 0
    /\ Render(0)
    /\ tmActive' = [tm \in Tms |-> FALSE]
    /\ UNCHANGED <<hostEnv, hExecCount, hExecPc, callVars, loadVars, bridgeVars, initVars,
                   regVars, serverTransport, trVars, tSent, tmCount, tmSid, tmCaller,
                   tmStart, tmCurrent, ticks, tmMiss, procVars, obsVars,
                   proxyVars, cspVars, concVars, resVars, connVars>>
HandleStop ==
    /\ hExecution = "running"
    /\ hExecution' = "completed"
    /\ hInfo' = 0
    /\ Render(0)
    /\ UNCHANGED <<hostEnv, hExecCount, hExecPc, callVars, loadVars, bridgeVars, initVars,
                   notHost>>

\* ToolWindow.tsx:126-141  the window is given another tool
ToolChanges ==
    /\ hToolChanges < MaxToolChanges
    /\ hToolChanges' = hToolChanges + 1
    /\ hToolHasUi' = ~hToolHasUi
    /\ hInfo' = 0
    /\ Render(0)
    /\ UNCHANGED <<hConnected, hError, hExecution, hExecCount, hExecPc, callVars, loadVars,
                   bridgeVars, initVars, notHost>>

\* part_001:44-69  loadSandboxProxy(iframe)
loadSandboxProxy(f) ==
    IF AlreadyLoaded(hSrc[f])
    THEN /\ hLoadFalse' = [hLoadFalse EXCEPT ![f] = @ + 1]
         /\ UNCHANGED <<hSrc, hSandbox, hListeners, hLoadTrue, hFirstTime, hLoadInfo,
                        hReadyFrom>>
    ELSE /\ hSandbox' = [hSandbox EXCEPT ![f] = HostSandbox]
         /\ hListeners' = [hListeners EXCEPT ![f] = @ + 1]
         /\ hSrc' = [hSrc EXCEPT ![f] = TRUE]
         /\ hLoadInfo' = [hLoadInfo EXCEPT ![f] = hInfo]
         /\ UNCHANGED <<hLoadTrue, hLoadFalse, hFirstTime, hReadyFrom>>

\* ToolWindow.tsx:50-60  the effect of AppIFramePanel
RunEffect ==
    /\ hEffectDue > 0
    /\ hPanel # 0
    /\ hEffectDue' = hEffectDue - 1
    /\ loadSandboxProxy(hPanel)
    /\ UNCHANGED <<hostEnv, windowVars, callVars, hPanel, hIframeCount, bridgeVars, initVars,
                   notHost>>

\* Windows a message event can come from: the content window of iframe f is
\* f, any other window is OtherWindow.
OtherWindow == 0

\* a listener that does not look at the window the message came from
ListenerAcceptsAnySource(f, source, method) == method = PROXY_READY_NOTIFICATION

\* part_001:58  source === iframe.contentWindow && data?.method === readyNotification
ListenerAccepts(f, source, method) == source = f /\ method = PROXY_READY_NOTIFICATION

\* part_001:57-63  a message event reaches the listeners that wait on iframe
\* f: on the proxy's own announcement every listener removes itself and
\* resolves true, any other message leaves them waiting
WindowMessage(f, source, method) ==
    /\ hPanel = f
    /\ hListeners[f] > 0
    /\ hReadyFrom' = IF source = f /\ method = PROXY_READY_NOTIFICATION
                     THEN [hReadyFrom EXCEPT ![f] = TRUE]
                     ELSE hReadyFrom
    /\ IF ListenerAccepts(f, source, method)
       THEN /\ hListeners' = [hListeners EXCEPT ![f] = 0]
            /\ hLoadTrue' = [hLoadTrue EXCEPT ![f] = @ + hListeners[f]]
            /\ hFirstTime' = [hFirstTime EXCEPT ![f] = @ + hListeners[f]]
       ELSE UNCHANGED <<hListeners, hLoadTrue, hFirstTime>>
    /\ UNCHANGED <<hostEnv, windowVars, callVars, panelVars, hSrc, hSandbox, hLoadFalse,
                   hLoadInfo, bridgeVars, initVars, notHost>>

\* the proxy of iframe f announces itself (sandbox.ts:167-171)
SandboxProxyReady(f) == WindowMessage(f, f, PROXY_READY_NOTIFICATION)

\* ToolWindow.tsx:52-59 with part_001:119-176 and part_001:79-85: the
\* continuation of a load that resolved true makes the bridge, hooks the
\* initialized callback and calls connect
FirstTime(f) ==
    /\ hFirstTime[f] > 0
    /\ hFirstTime' = [hFirstTime EXCEPT ![f] = @ - 1]
    /\ hBridges' = [hBridges EXCEPT ![f] = @ + 1]
    /\ hBridgeInfo' = [hBridgeInfo EXCEPT ![f] = hLoadInfo[f]]
    /\ hOnInit' = [hOnInit EXCEPT ![f] = "hook"]
    /\ hHandlers' = [hHandlers EXCEPT ![f] = NewAppBridgeHandlers \cup {"oninitialized"}]
    /\ hAtConnect' = [hAtConnect EXCEPT ![f] = NewAppBridgeHandlers \cup {"oninitialized"}]
    /\ hConnect' = [hConnect EXCEPT ![f] = "started"]
    /\ hPc' = [hPc EXCEPT ![f] = "connect"]
    /\ UNCHANGED <<hostEnv, windowVars, callVars, panelVars, hSrc, hSandbox, hListeners,
                   hLoadTrue, hLoadFalse, hLoadInfo, hReadyFrom, hToGuest, hAttached,
                   hInitEvents,
                   hInitResolved, hOrigCalls, notHost>>

\* part_001:83  `await` goes on after a resolved connect() and throws out of
\* initializeApp after a rejected one
AfterConnectIgnoresFailure(outcome) == "awaitResource"
AfterConnect(outcome) == IF outcome = "ok" THEN "awaitResource" ELSE "failed"

\* part_001:83-85  await appBridge.connect(...) resolves or rejects
ConnectDone(f) ==
    /\ hPc[f] = "connect"
    /\ \E outcome \in {"ok", "failed"} :
        /\ hConnect' = [hConnect EXCEPT ![f] = outcome]
        /\ hPc' = [hPc EXCEPT ![f] = AfterConnect(outcome)]
    /\ UNCHANGED <<hostEnv, windowVars, callVars, panelVars, loadVars, hBridges, hHandlers,
                   hAtConnect, hBridgeInfo, hToGuest, hAttached, initVars, notHost>>

\* part_001:88-90 with mcpClient.ts:98-133: the resource read of the
\* bridge's invocation settles and `await appResourcePromise` resumes; with
\* a document initializeApp calls sendSandboxResourceReady, a rejection ends it
ResourceArrives(f) ==
    /\ hPc[f] = "awaitResource"
    /\ ResourceAwaited(hBridgeInfo[f])
    /\ \/ /\ hResource' = [hResource EXCEPT ![hBridgeInfo[f]] = "ok"]
          /\ hToGuest' = [hToGuest EXCEPT ![f] = Append(@, ResourceReadyMsg)]
          /\ hPc' = [hPc EXCEPT ![f] = "awaitSend"]
       \/ /\ hResource' = [hResource EXCEPT ![hBridgeInfo[f]] = "rejected"]
          /\ hPc' = [hPc EXCEPT ![f] = "failed"]
          /\ UNCHANGED hToGuest
    /\ UNCHANGED <<hostEnv, windowVars, hStarted, hResult, panelVars, loadVars, hBridges,
                   hHandlers, hAtConnect, hConnect, hBridgeInfo, hAttached, initVars, notHost>>

\* part_001:90-94  the send has been handed over; initializeApp goes on to
\* await the initialized promise
SendResourceDone(f) ==
    /\ hPc[f] = "awaitSend"
    /\ hPc' = [hPc EXCEPT ![f] = "awaitInit"]
    /\ UNCHANGED <<hostEnv, windowVars, callVars, panelVars, loadVars, hBridges, hHandlers,
                   hAtConnect, hConnect, hBridgeInfo, hToGuest, hAttached, initVars, notHost>>

\* part_001:182-191  the guest of iframe f sends an initialized notification:
\* the bridge calls whatever oninitialized holds
GuestInitialized(f) ==
    /\ hPanel = f
    /\ hConnect[f] = "ok"
    /\ \E k \in 1..Len(hToGuest[f]) : hToGuest[f][k] = ResourceReadyMsg
    /\ hInitEvents[f] < MaxInitEvents
    /\ hInitEvents' = [hInitEvents EXCEPT ![f] = @ + 1]
    /\ hOrigCalls' = [hOrigCalls EXCEPT ![f] = @ + 1]
    /\ IF hOnInit[f] = "hook"
       THEN /\ hInitResolved' = [hInitResolved EXCEPT ![f] = @ + 1]
            /\ hOnInit' = [hOnInit EXCEPT ![f] = HookRestores]
       ELSE UNCHANGED <<hInitResolved, hOnInit>>
    /\ UNCHANGED <<hostEnv, windowVars, callVars, panelVars, loadVars, bridgeVars, notHost>>

\* part_001:94-113  after `await appInitializedPromise`: sendToolInput, then
\* the two continuations are attached to the result promise
AfterInitialized(f) ==
    /\ hPc[f] = "awaitInit"
    /\ hInitResolved[f] > 0
    /\ hToGuest' = [hToGuest EXCEPT ![f] = Append(@, ToolInputMsg)]
    /\ hAttached' = [hAttached EXCEPT ![hBridgeInfo[f]] = @ + 1]
    /\ hPc' = [hPc EXCEPT ![f] = "attached"]
    /\ UNCHANGED <<hostEnv, windowVars, callVars, panelVars, loadVars, hBridges, hHandlers,
                   hAtConnect, hConnect, hBridgeInfo, initVars, notHost>>

\* part_001:102-113  one of the two continuations runs
Notify(f) ==
    /\ hPc[f] = "attached"
    /\ hResult[hBridgeInfo[f]] \in {"fulfilled", "rejected"}
    /\ hToGuest' = [hToGuest EXCEPT ![f] =
            Append(@, IF hResult[hBridgeInfo[f]] = "fulfilled"
                      THEN ToolResultMsg
                      ELSE ToolCancelledMsg(hError))]
    /\ hPc' = [hPc EXCEPT ![f] = "notified"]
    /\ UNCHANGED <<hostEnv, windowVars, callVars, panelVars, loadVars, hBridges, hHandlers,
                   hAtConnect, hConnect, hBridgeInfo, hAttached, initVars, notHost>>

NextHost ==
    \/ HandleExecute
    \/ \E i \in Execs : ExecResume(i)
    \/ \E i \in Execs : ResultSettles(i)
    \/ HandleStop
    \/ ToolChanges
    \/ RunEffect
    \/ \E f \in Iframes : SandboxProxyReady(f)
    \/ \E f \in Iframes, method \in {PROXY_READY_NOTIFICATION, "ui/message"} :
            WindowMessage(f, OtherWindow, method)
    \/ \E f \in Iframes : FirstTime(f)
    \/ \E f \in Iframes : ConnectDone(f)
    \/ \E f \in Iframes : ResourceArrives(f)
    \/ \E f \in Iframes : SendResourceDone(f)
    \/ \E f \in Iframes : GuestInitialized(f)
    \/ \E f \in Iframes : AfterInitialized(f)
    \/ \E f \in Iframes : Notify(f)

\* A tool window opened on a tool with or without a UI resource, on a server
\* that is connected or not.
InitHost ==
    /\ ServerInit
    /\ observing = FALSE
    /\ ProxyIdle
    /\ CspIdle
    /\ ConcIdle
    /\ ResIdle
    /\ ConnIdle
    /\ hConnected \in BOOLEAN
    /\ hToolHasUi \in BOOLEAN
    /\ hError \in ErrorValues
    /\ HostStart

SpecHost == InitHost /\ [][NextHost]_vars

\* ------------------------------------- requests inside handleRequest
\* The handlers forward a request that names a registered session with
\* `await transport.handleRequest(...)` (server.ts:205-206, 225-227).  The
\* handler is suspended there until the transport has answered; inFlight
\* lists, per session, the requests whose handler is suspended at that await.
InFlightKinds == {"GET", "POST"}

\* server.ts:203-206: a GET with a registered session id enters its transport
GetEnter(sid) ==
    /\ ~crashed
    /\ Known(sid)
    /\ Len(inFlight[sid]) < MaxInFlight
    /\ inFlight' = [inFlight EXCEPT ![sid] = Append(@, "GET")]
    /\ UNCHANGED notConc

\* server.ts:224-227: a POST with a registered session id enters its transport
PostEnter(sid) ==
    /\ ~crashed
    /\ Known(sid)
    /\ Len(inFlight[sid]) < MaxInFlight
    /\ inFlight' = [inFlight EXCEPT ![sid] = Append(@, "POST")]
    /\ UNCHANGED notConc

\* server.ts:206-208, 226-227: handleRequest of the k-th request in flight
\* resolves and its handler returns
RequestLeave(sid, k) ==
    /\ k \in 1..Len(inFlight[sid])
    /\ inFlight' = [inFlight EXCEPT ![sid] = RemoveAt(@, k)]
    /\ UNCHANGED notConc

NextConc ==
    \/ \E sid \in HeaderIds, body \in PostBodies : PostCreate(sid, body)
    \/ \E t \in Tids : InitHandleRequest(t)
    \/ \E t \in Tids : InitRegister(t)
    \/ \E sid \in SessionIds : GetEnter(sid)
    \/ \E sid \in SessionIds : PostEnter(sid)
    \/ \E sid \in SessionIds, k \in 1..MaxInFlight : RequestLeave(sid, k)

InitConc ==
    /\ ServerInit
    /\ observing = FALSE
    /\ ProxyIdle
    /\ CspIdle
    /\ HostIdle
    /\ ConcIdle
    /\ ResIdle
    /\ ConnIdle

SpecConc == InitConc /\ [][NextConc]_vars

\* --------------------------------------- MCPClientService.getUiResource
\* mcpClient.ts:116  "text/html;profile=mcp-app" signals an MCP App UI
RESOURCE_MIME_TYPE == "text/html;profile=mcp-app"

\* A content part: its MIME type, the text or the base64 blob it carries, and
\* the metadata under `_meta` and under `meta`.
ContentPart(mimeType, text, blob, meta, pyMeta) ==
    [mimeType |-> mimeType, text |-> text, blob |-> blob, _meta |-> meta, meta |-> pyMeta]
MetaWith(csp) == [ui |-> [csp |-> csp]]
NoMeta == [ui |-> [csp |-> NoValue]]
CspOfSpec == <<"connect", "api.example">>
CspOfPython == <<"connect", "py.example">>
MimeTypes == {RESOURCE_MIME_TYPE, "text/html", "#undefined"}
ContentParts ==
    {ContentPart(m, <<"<p>text</p>">>, NoValue, meta, pyMeta) :
        m \in MimeTypes, meta \in {NoMeta, MetaWith(CspOfSpec)},
        pyMeta \in {NoMeta, MetaWith(CspOfPython)}}
    \cup {ContentPart(m, NoValue, <<"PHA+", "YmxvYjwvcD4=">>, NoMeta, NoMeta) : m \in MimeTypes}
RECURSIVE SeqsUpTo(_, _)
SeqsUpTo(S, n) ==
    IF n = 0 THEN {<<>>}
    ELSE LET shorter == SeqsUpTo(S, n - 1) IN
         shorter \cup {Append(q, x) : q \in {r \in shorter : Len(r) = n - 1}, x \in S}
ReadOutcomes ==
    {ReadOutcome("rejects", <<>>), ReadOutcome("null", <<>>)}
    \cup {ReadOutcome("contents", c) : c \in SeqsUpTo(ContentParts, MaxParts)}

\* atob on the base64 chunks the parts carry; a document is the sequence of
\* its chunks
atob(blob) ==
    [k \in 1..Len(blob) |->
        CASE blob[k] = "PHA+" -> "<p>"
          [] blob[k] = "YmxvYjwvcD4=" -> "blob</p>"
          [] OTHER -> "?"]

\* mcpClient.ts:122  "blob" in content ? atob(content.blob) : content.text
HtmlOf(content) == IF content.blob # NoValue THEN atob(content.blob) ELSE content.text

\* mcpClient.ts:129-130  (content._meta || content.meta)?.ui?.csp
CspOf(content) == IF content._meta # NoMeta THEN content._meta.ui.csp ELSE content.meta.ui.csp

\* mcpClient.ts:110  resource.contents.length !== 1
AtLeastOnePart(contents) == Len(contents) >= 1
ExactlyOnePart(contents) == Len(contents) = 1

\* mcpClient.ts:98-133
getUiResource(connected, read) ==
    IF ~connected THEN Failure("Not connected to server")
    ELSE IF read.kind = "rejects" THEN Failure("readResource rejected")
    ELSE IF read.kind = "null" THEN Failure("Resource not found")
    ELSE IF ~ExactlyOnePart(read.contents) THEN Failure("Unexpected contents count")
    ELSE IF read.contents[1].mimeType # RESOURCE_MIME_TYPE THEN Failure("Unsupported MIME type")
    ELSE UiResourceData(HtmlOf(read.contents[1]), CspOf(read.contents[1]))

\* mcpClient.ts:100-104  the client lookup; with a client the read is started
ResCall ==
    /\ resPc = "idle"
    /\ IF resConnected
       THEN resPc' = "reading" /\ UNCHANGED resOut
       ELSE resPc' = "done" /\ resOut' = getUiResource(resConnected, resRead)
    /\ UNCHANGED <<resConnected, resRead, notRes>>

\* mcpClient.ts:104-132  `await client.readResource` settles and the rest runs
ResRead ==
    /\ resPc = "reading"
    /\ resPc' = "done"
    /\ resOut' = getUiResource(resConnected, resRead)
    /\ UNCHANGED <<resConnected, resRead, notRes>>

NextRes ==
    \/ ResCall
    \/ ResRead

InitRes ==
    /\ ServerInit
    /\ observing = FALSE
    /\ ProxyIdle
    /\ CspIdle
    /\ HostIdle
    /\ ConcIdle
    /\ ConnIdle
    /\ resPc = "idle"
    /\ resConnected \in BOOLEAN
    /\ resRead \in ReadOutcomes
    /\ resOut = NoOutcome

SpecRes == InitRes /\ [][NextRes]_vars

Next ==
    \/ handlePostRequest
    \/ \E t \in Tids : InitHandleRequest(t)
    \/ \E t \in Tids : InitRegister(t)
    \/ handleGetRequest
    \/ RouterDelete
    \/ \E t \in Tids : TransportClose(t)
    \/ \E tm \in Tms : TickStart(tm)
    \/ \E tm \in Tms, i \in 1..MaxOverlap : TickResume(tm, i)
    \/ \E tm \in Tms, i \in 1..MaxOverlap : TickFinish(tm, i)

Spec == Init /\ [][Next]_vars

NextHttp ==
    \/ handlePostRequest
    \/ \E t \in Tids : InitHandleRequest(t)
    \/ \E t \in Tids : InitRegister(t)
    \/ handleGetRequest
    \/ RouterDelete
    \/ \E t \in Tids : TransportClose(t)

SpecHttp == InitHttp /\ [][NextHttp]_vars

\* ------------------------------- the class-based server (part_012)
\* index.ts still constructs `new MCPServer(new Server(...))`: the variant of
\* the server whose tools/call handler is one switch statement.  It differs
\* from server.ts in the tool handler; its handlers for POST and GET are the
\* same statements.
\* part_012:196-296: the tools/call handler for the countdown tool.  A
\* missing session id or an invalid start throws; otherwise the start notice
\* is sent and the interval set, the case ends with `break`, and the handler
\* returns the statement after the switch.
setupToolsCountdown(sid, body) ==
    IF ExtraSessionId = 0
    THEN /\ Answer("POST", sid, body, TransportReply(200, "no-session-or-notification"))
         /\ UNCHANGED <<tSent, tmVars>>
    ELSE IF ~ValidStart(body.start)
    THEN /\ Answer("POST", sid, body, TransportReply(200, "start-out-of-range"))
         /\ UNCHANGED <<tSent, tmVars>>
    ELSE /\ tmCount < MaxTimers
         /\ LET tm == tmCount + 1 IN
            /\ tmCount' = tm
            /\ tmSid' = [tmSid EXCEPT ![tm] = ExtraSessionId]
            /\ tmCaller' = [tmCaller EXCEPT ![tm] = sid]
            /\ tmStart' = [tmStart EXCEPT ![tm] = body.start]
            /\ tmCurrent' = [tmCurrent EXCEPT ![tm] = body.start]
            /\ tmActive' = [tmActive EXCEPT ![tm] = TRUE]
            /\ tSent' = [tSent EXCEPT ![serverTransport][tm] =
                            Append(@, Notif("start", tm, body.start))]
         /\ Answer("POST", sid, body, TransportReply(200, "tool-not-found"))
         /\ UNCHANGED <<ticks, tmMiss>>

\* part_012:131-135: a registered session id: forward to its transport
PostReuseClass(sid, body) ==
    /\ ~crashed
    /\ Known(sid)
    /\ CASE body.kind = "countdown" -> setupToolsCountdown(sid, body)
         [] isInitializeRequest(body) ->
              /\ Answer("POST", sid, body, TransportReply(400, "already-initialized"))
              /\ UNCHANGED <<tSent, tmVars>>
         [] OTHER ->
              /\ Answer("POST", sid, body, TransportReply(200, "ok"))
              /\ UNCHANGED <<tSent, tmVars>>
    /\ UNCHANGED <<regVars, serverTransport, trVars, procVars, notServer>>

NextClass ==
    \/ \E sid \in HeaderIds, body \in PostBodies : PostReuseClass(sid, body)
    \/ \E sid \in HeaderIds, body \in PostBodies : PostCreate(sid, body)
    \/ \E sid \in HeaderIds, body \in PostBodies : PostReject(sid, body)
    \/ \E t \in Tids : InitHandleRequest(t)
    \/ \E t \in Tids : InitRegister(t)
    \/ handleGetRequest

SpecClass == InitHttp /\ [][NextClass]_vars

\* ---- the dashboard's tool window next to the countdown server ----
\* A tool without UI resource is executed and stopped in the window
\* (ToolWindow.tsx:229-308) while the server of server.ts runs its sessions
\* and timers.
InitStop ==
    /\ ServerInit
    /\ observing = FALSE
    /\ ProxyIdle
    /\ CspIdle
    /\ ConcIdle
    /\ ResIdle
    /\ ConnIdle
    /\ hConnected = TRUE
    /\ hToolHasUi = FALSE
    /\ hError = ErrorValue(TRUE, "boom", "Error: boom")
    /\ HostStart

NextStop ==
    \/ handlePostRequest
    \/ \E t \in Tids : InitHandleRequest(t)
    \/ \E t \in Tids : InitRegister(t)
    \/ \E t \in Tids : TransportClose(t)
    \/ \E tm \in Tms : TickStart(tm)
    \/ \E tm \in Tms, i \in 1..MaxOverlap : TickResume(tm, i)
    \/ \E tm \in Tms, i \in 1..MaxOverlap : TickFinish(tm, i)
    \/ HandleExecute
    \/ \E i \in Execs : ResultSettles(i)
    \/ \E i \in Execs : ExecResume(i)
    \/ HandleStop

SpecStop == InitStop /\ [][NextStop]_vars

\* ---- the dashboard's connection state and the client service ----
\* MCPContext.tsx:167-171  actions.connectToServer up to its await
connectToServer(id) ==
    /\ cPc[id] = "idle"
    /\ cStatus' = [cStatus EXCEPT ![id] = "connecting"]
    /\ cPc' = [cPc EXCEPT ![id] = "awaitConnect"]
    /\ UNCHANGED <<cClients, cError, notConn>>

\* mcpClient.ts:18-54 with MCPContext.tsx:174-180: the service's
\* connectToServer returns true after clients.set, false after a failed
\* connect, and the action dispatches the status
ConnectSettles(id, connected) ==
    /\ cPc[id] = "awaitConnect"
    /\ IF connected
       THEN /\ cClients' = [cClients EXCEPT ![id] = TRUE]
            /\ cStatus' = [cStatus EXCEPT ![id] = "connected"]
            /\ cPc' = [cPc EXCEPT ![id] = "awaitTools"]
       ELSE /\ cStatus' = [cStatus EXCEPT ![id] = "disconnected"]
            /\ cPc' = [cPc EXCEPT ![id] = "idle"]
            /\ UNCHANGED cClients
    /\ UNCHANGED <<cError, notConn>>

\* MCPContext.tsx:177, 194-202  fetchServerTools returns or throws
FetchServerToolsDone(id) ==
    /\ cPc[id] = "awaitTools"
    /\ cPc' = [cPc EXCEPT ![id] = "idle"]
    /\ UNCHANGED <<cStatus, cClients, cError, notConn>>

\* MCPContext.tsx:188-189  actions.disconnectFromServer up to its await
disconnectFromServer(id) ==
    /\ cPc[id] = "idle"
    /\ cPc' = [cPc EXCEPT ![id] = "awaitDisconnect"]
    /\ UNCHANGED <<cStatus, cClients, cError, notConn>>

\* mcpClient.ts:56-62 with MCPContext.tsx:190-191: the client is closed and
\* dropped, then the status is dispatched
DisconnectDone(id) ==
    /\ cPc[id] = "awaitDisconnect"
    /\ cClients' = [cClients EXCEPT ![id] = FALSE]
    /\ cStatus' = [cStatus EXCEPT ![id] = "disconnected"]
    /\ cPc' = [cPc EXCEPT ![id] = "idle"]
    /\ UNCHANGED <<cError, notConn>>

\* mcpClient.ts:162-165, 56-59: the transport of a held client reports an
\* error; the handler calls disconnectFromServer, which awaits client.close()
TransportError(id) ==
    /\ cClients[id]
    /\ ~cError[id]
    /\ cError' = [cError EXCEPT ![id] = TRUE]
    /\ UNCHANGED <<cStatus, cClients, cPc, notConn>>

\* mcpClient.ts:60  after the close: this.clients.delete(serverId)
ErrorDisconnectDone(id) ==
    /\ cError[id]
    /\ cError' = [cError EXCEPT ![id] = FALSE]
    /\ cClients' = [cClients EXCEPT ![id] = FALSE]
    /\ UNCHANGED <<cStatus, cPc, notConn>>

NextConn ==
    \/ \E id \in Servers : connectToServer(id)
    \/ \E id \in Servers, connected \in BOOLEAN : ConnectSettles(id, connected)
    \/ \E id \in Servers : FetchServerToolsDone(id)
    \/ \E id \in Servers : disconnectFromServer(id)
    \/ \E id \in Servers : DisconnectDone(id)
    \/ \E id \in Servers : TransportError(id)
    \/ \E id \in Servers : ErrorDisconnectDone(id)

InitConn ==
    /\ ServerInit
    /\ observing = FALSE
    /\ ProxyIdle
    /\ CspIdle
    /\ HostIdle
    /\ ConcIdle
    /\ ResIdle
    /\ ConnIdle

SpecConn == InitConn /\ [][NextConn]_vars

\* ================================================================ claims

\* C1: every notification produced by a tool call made on session A (start
\* notice, countdown ticks, completion notice) is handed only to A's
\* transport, never to the transport of another session.
C1_SessionIsolation ==
    \A t \in Tids, tm \in Tms :
        tSent[t][tm] # <<>> => tSession[t] = tmCaller[tm]

\* C2: a POST, GET or DELETE whose session header is missing or names no
\* registered session, other than an initialize POST without a header, is
\* answered with the invalid-session error and leaves the session map as it was.
UnknownSessionRequest(req) ==
    /\ req.method # "none"
    /\ req.header \in {"missing", "unknown"}
    /\ ~(req.method = "POST" /\ req.header = "missing" /\ req.body = "initialize")

C2_InvalidSessionRejected ==
    /\ [](UnknownSessionRequest(lastReq) => lastResp = InvalidSessionError)
    /\ [][(lastReq' # lastReq /\ UnknownSessionRequest(lastReq'))
            => transports' = transports]_vars

\* C3: a countdown started with N on a session that stays registered emits
\* N, N-1, ..., 0 and then one completion notice, and nothing else: what it
\* has emitted is always a prefix of that sequence, and the whole of it once
\* the interval is cleared and no callback is suspended.
RECURSIVE Countdown(_)
Countdown(n) == IF n < 0 THEN <<>> ELSE <<n>> \o Countdown(n - 1)

ExpectedEmissions(n) == Countdown(n) \o <<-1>>

RECURSIVE EmittedValues(_)
EmittedValues(log) ==
    IF log = <<>> THEN <<>>
    ELSE LET n == Head(log) IN
         (IF n.kind = "tick" THEN <<n.val>>
          ELSE IF n.kind = "done" THEN <<-1>> ELSE <<>>)
         \o EmittedValues(Tail(log))

IsPrefix(a, b) == Len(a) <= Len(b) /\ a = SubSeq(b, 1, Len(a))

C3_StreamingTermination ==
    \A tm \in 1..tmCount :
        Known(tmSid[tm]) =>
            LET emitted == EmittedValues(tSent[transports[tmSid[tm]]][tm]) IN
            /\ IsPrefix(emitted, ExpectedEmissions(tmStart[tm]))
            /\ (~tmActive[tm] /\ ticks[tm] = <<>>)
                   => emitted = ExpectedEmissions(tmStart[tm])

\* C4: when the alert on the top window returns without raising, the proxy
\* ends in Failed: no inner frame, no message listener, nothing posted to the
\* parent, no guest document.
C4_SelfTestFailsClosed ==
    topAlert = "returns" =>
        /\ pc \in {"start", "referrer", "selftest", "failed"}
        /\ ~innerExists
        /\ ~listening
        /\ toParent = <<>>
        /\ toInner = <<>>
        /\ innerSrcdoc = NoValue

C4_Witness ==
    /\ topAlert = "returns"
    /\ ~isTop
    /\ MatchesAllowedReferrer(referrer)
    /\ pc = "failed"

\* C5: in the steady state the parent has been posted the ready notice and
\* then exactly the data received from the guest, unchanged and in order; the
\* inner frame has been posted exactly the data received from the parent,
\* unchanged, without the resource-ready control messages.
NotControl(data) == data.method # "ui/notifications/sandbox-resource-ready"

C5_RelayFidelity ==
    pc = "steady" =>
        /\ toParent = <<ProxyReady>> \o fromInner
        /\ toInner = SelectSeq(fromParent, NotControl)

C5_Witness ==
    /\ pc = "steady"
    /\ fromInner # <<>>
    /\ \E i \in 1..Len(fromParent) : ~NotControl(fromParent[i])
    /\ \E i \in 1..Len(fromParent) : NotControl(fromParent[i])

\* C6: a countdown callback that finds no transport for its session clears
\* the interval, so the timer of a torn-down session stops.
C6_MissingSessionStopsTimer ==
    \A tm \in Tms : (tmMiss[tm] /\ ~crashed) => ~tmActive[tm]

\* C7: a countdown callback that finds no transport for its session raises
\* no error and leaves the server running.
C7_MissingSessionIsSilent ==
    (\E tm \in Tms : tmMiss[tm]) => (~unhandled /\ ~crashed)

\* C8: once a transport has signalled close, the registry holds no entry
\* for its session id.
C8_NoStaleEntries ==
    \A t \in Tids :
        (tClosed[t] /\ tSession[t] # 0) => transports[tSession[t]] = 0

\* C9: once a DELETE for a registered session S has been answered, S is no
\* longer registered.
C9_DeleteRemovesSession ==
    (lastReq.method = "DELETE" /\ lastReq.header = "registered")
        => transports[lastReq.sid] = 0

\* C10: every entry maps its session id to the one transport that owns that
\* id, no two transports own the same id, every completed initialize handshake
\* accounts for exactly one session (registered now or removed since), and no
\* removed id has been registered again.
SessionsCreated == {sid \in SessionIds : transports[sid] # 0 \/ sid \in removedIds}
HandshakesCompleted == {t \in Tids : initPc[t] = "done" /\ tSession[t] # 0}

C10_OneTransportPerSession ==
    /\ \A sid \in SessionIds :
           transports[sid] # 0 => tSession[transports[sid]] = sid
    /\ \A t1, t2 \in Tids :
           (t1 # t2 /\ tSession[t1] # 0) => tSession[t1] # tSession[t2]
    /\ Cardinality(SessionsCreated) = Cardinality(HandshakesCompleted)
    /\ ~reRegistered

C10_Witness ==
    /\ removedIds # {}
    /\ \E sid \in SessionIds : transports[sid] # 0 /\ ~tClosed[transports[sid]]
    /\ Cardinality(HandshakesCompleted) >= 2

\* C11: a POST whose body is an initialize message and which carries a
\* session id header, registered or not, is answered with a protocol error
\* (400 with a JSON-RPC error), and it constructs no transport, generates no
\* session id, and changes neither the session map nor the server's transport.
InitializeWithHeader(req) ==
    /\ req.method = "POST"
    /\ req.header \in {"registered", "unknown"}
    /\ req.body \in {"initialize", "initBatch"}

C11_InitializeWithHeaderRejected ==
    /\ [](InitializeWithHeader(lastReq) =>
            lastResp \in {InvalidSessionError, TransportReply(400, "already-initialized")})
    /\ [][(lastReq' # lastReq /\ InitializeWithHeader(lastReq')) =>
            /\ transports' = transports
            /\ tCount' = tCount
            /\ uuidCount' = uuidCount
            /\ serverTransport' = serverTransport
            /\ tSession' = tSession]_vars

C11_Witness ==
    /\ InitializeWithHeader(lastReq)
    /\ lastReq.header = "registered"
    /\ lastReq.body = "initialize"
    /\ lastResp = TransportReply(400, "already-initialized")
    /\ transports[lastReq.sid] # 0

\* C12: the proxy gets past its startup guards only when its window is not
\* the top window and document.referrer is non-empty and matches
\* ALLOWED_REFERRER_PATTERN; otherwise it is Failed (or has not yet run the
\* failing guard) with no inner frame, no listener and nothing posted.
PastGuards == pc \in {"selftest", "createInner", "listen", "announce", "steady"}

GuardsSatisfied == ~isTop /\ referrer # <<>> /\ MatchesAllowedReferrer(referrer)

C12_StartupGuardsFailClosed ==
    /\ PastGuards => GuardsSatisfied
    /\ ~GuardsSatisfied =>
          /\ pc \in {"start", "referrer", "failed"}
          /\ ~innerExists
          /\ ~listening
          /\ toParent = <<>>
          /\ toInner = <<>>
          /\ innerSrcdoc = NoValue

C12_Witness ==
    /\ pc = "failed"
    /\ ~isTop
    /\ referrer # <<>>
    /\ ~MatchesAllowedReferrer(referrer)

\* C13: a message event whose source is neither the parent window nor the
\* inner frame's window changes neither the inner frame's sandbox attribute
\* nor its document and posts nothing to either side; the frame and what is
\* posted to the guest change only on a message from the parent, and what is
\* posted to the parent grows only on a message from the guest (after the
\* ready notice).
C13_OtherSourcesDiscarded ==
    [][ /\ (fromOther' # fromOther) =>
             UNCHANGED <<innerExists, innerSandbox, innerSrcdoc, toParent, toInner>>
        /\ (pc = "steady" /\ <<innerSandbox, innerSrcdoc, toInner>>' #
                               <<innerSandbox, innerSrcdoc, toInner>>) =>
             fromParent' # fromParent
        /\ (pc = "steady" /\ toParent' # toParent) => fromInner' # fromInner ]_vars

C13_Witness ==
    /\ fromOther > 0
    /\ innerSrcdoc # NoValue
    /\ toParent = <<ProxyReady>>
    /\ toInner = <<>>

\* C14: every document loaded into the inner frame carries the injected CSP
\* meta tag with the restrictive base directives, whether the control message
\* had a CSP config or not and whether the config named any domains or not.
CspMetaOpen == "<meta http-equiv=Content-Security-Policy content="

CarriesCspTag(doc) ==
    \E i \in 1..Len(doc) :
        /\ doc[i] = CspMetaOpen
        /\ Len(doc) >= i + 2
        /\ SubSeq(doc, i + 1, i + 2) = <<"default-src", "'self'">>

C14_GuestAlwaysUnderCsp == innerSrcdoc # NoValue => CarriesCspTag(innerSrcdoc)

\* C15: with a CSP config, the loaded document is the guest HTML with the
\* meta tag right after its opening head tag and nothing else changed; with
\* no opening head tag a head holding the tag is put in front of the guest
\* HTML; in both cases no guest script comes before the tag.
IsOpeningHead(tok) == tok \in {"<head>", "<head lang>"}

HasOpeningHead(html) == \E i \in 1..Len(html) : IsOpeningHead(html[i])

OpeningHeadAt(html) ==
    CHOOSE i \in 1..Len(html) :
        IsOpeningHead(html[i]) /\ \A j \in 1..(i - 1) : ~IsOpeningHead(html[j])

TagPosition(doc) == CHOOSE i \in 1..Len(doc) : doc[i] = CspMetaOpen

C15_TagAfterHeadBeforeContent ==
    (cspPc = "loaded" /\ cspArg.given) =>
        LET tag == buildCspMetaTag(cspArg) IN
        /\ cspDoc = IF HasOpeningHead(htmlArg)
                    THEN InsertAfter(htmlArg, OpeningHeadAt(htmlArg), tag)
                    ELSE <<"<head>">> \o tag \o <<"</head>">> \o htmlArg
        /\ \A j \in 1..(TagPosition(cspDoc) - 1) : cspDoc[j] # "<script>"

\* C16: in the policy a browser reads from the built tag, default-src,
\* frame-src, object-src and base-uri have their fixed values; script-src,
\* style-src, img-src and font-src are their base values followed by the
\* resourceDomains, connect-src is its base value followed by the
\* connectDomains; and the policy has no directive besides these nine,
\* whatever the domain strings are.
\* The content attribute of the tag: what is between the opening and ">".
PolicyTokens(tag) == SubSeq(tag, 2, Len(tag) - 1)

\* split at ";" into directives
RECURSIVE SplitDirectives(_, _)
SplitDirectives(tokens, current) ==
    IF tokens = <<>> THEN <<current>>
    ELSE IF Head(tokens) = ";"
    THEN <<current>> \o SplitDirectives(Tail(tokens), <<>>)
    ELSE SplitDirectives(Tail(tokens), Append(current, Head(tokens)))

ParsedDirectives(tag) ==
    SelectSeq(SplitDirectives(PolicyTokens(tag), <<>>), LAMBDA d : d # <<>>)

DirectiveNames(tag) ==
    {ParsedDirectives(tag)[i][1] : i \in 1..Len(ParsedDirectives(tag))}

\* the value of a directive: its first occurrence counts, later ones are ignored
DirectiveValue(tag, name) ==
    LET ds == ParsedDirectives(tag)
        i == CHOOSE k \in 1..Len(ds) :
                 ds[k][1] = name /\ \A j \in 1..(k - 1) : ds[j][1] # name
    IN Tail(ds[i])

BaseTag == buildCspMetaTag(CspEmpty)

C16_CspDirectivesConfined ==
    cspPc # "input" =>
        LET resource == JoinDomains(cspArg.resourceDomains)
            connect == JoinDomains(cspArg.connectDomains) IN
        /\ DirectiveNames(cspTag) =
               {"default-src", "script-src", "style-src", "img-src", "font-src",
                "connect-src", "frame-src", "object-src", "base-uri"}
        /\ DirectiveValue(cspTag, "default-src") = <<"'self'">>
        /\ DirectiveValue(cspTag, "frame-src") = <<"'none'">>
        /\ DirectiveValue(cspTag, "object-src") = <<"'none'">>
        /\ DirectiveValue(cspTag, "base-uri") = <<"'self'">>
        /\ \A name \in {"script-src", "style-src", "img-src", "font-src"} :
               DirectiveValue(cspTag, name) = DirectiveValue(BaseTag, name) \o resource
        /\ DirectiveValue(cspTag, "connect-src") =
               DirectiveValue(BaseTag, "connect-src") \o connect

SandboxTokens == {innerSandbox[i] : i \in 1..Len(innerSandbox)}

C18_SandboxBaselineKept == innerExists => {"allow-scripts", "allow-forms"} \subseteq SandboxTokens

\* C19: the inner frame's document is set at most once: once srcdoc has been
\* assigned, no later message changes it.
C19_ResourceLoadedOnce == [][innerSrcdoc # NoValue => innerSrcdoc' = innerSrcdoc]_vars

\* C20: the proxy itself posts exactly one message that is not a relayed
\* guest message, the proxy-ready notification, as the first thing the
\* parent is posted; it does so only past the guards and the self-test, with
\* the inner frame created, carrying the default sandbox attribute and still
\* empty, and the listener installed.
C20_ReadyAnnouncedOnce ==
    /\ [](pc # "steady" => toParent = <<>>)
    /\ [](pc = "steady" =>
            /\ Len(toParent) = 1 + Len(fromInner)
            /\ Head(toParent) = ProxyReady
            /\ GuardsSatisfied /\ topAlert = "throws"
            /\ innerExists)
    /\ [][(toParent = <<>> /\ toParent' # <<>>) =>
            /\ toParent' = <<ProxyReady>>
            /\ innerExists /\ innerSandbox = DefaultSandbox /\ innerSrcdoc = NoValue
            /\ listening]_vars

C20_Witness ==
    /\ pc = "steady"
    /\ toParent = <<ProxyReady>>
    /\ innerExists
    /\ innerSandbox = DefaultSandbox
    /\ fromParent = <<>>

\* Notifications with the given method handed to the bridge of iframe f.
Sent(f, method) == {k \in 1..Len(hToGuest[f]) : hToGuest[f][k].method = method}

\* C21: a loadSandboxProxy call on an iframe that already has a source
\* resolves false and changes neither the source, the sandbox attribute nor
\* the message listeners; of all calls on one iframe at most one resolves
\* true, so one iframe gets at most one App Bridge and one connect() call.
C21_SandboxLoadIdempotent ==
    /\ [](\A f \in Iframes : hLoadTrue[f] + hListeners[f] <= 1 /\ hBridges[f] <= 1)
    /\ [][\A f \in Iframes : hLoadFalse'[f] # hLoadFalse[f] =>
            /\ hSrc[f]
            /\ UNCHANGED <<hSrc, hSandbox, hListeners, hLoadTrue, hBridges>>]_vars

C21_Witness ==
    \E f \in Iframes : hLoadFalse[f] >= 1 /\ hLoadTrue[f] = 1 /\ hBridges[f] = 1

\* C22: on one iframe's bridge at most one terminal notification is ever
\* sent; a tool-result only when the result promise of the bridge's
\* invocation fulfilled, a tool-cancelled only when it rejected, and then with
\* the error's message when the error is an Error and its string form
\* otherwise.
C22_TerminalNotificationsExclusive ==
    \A f \in Iframes :
        /\ Cardinality(Sent(f, "tool-result")) + Cardinality(Sent(f, "tool-cancelled")) <= 1
        /\ Sent(f, "tool-result") # {} => hResult[hBridgeInfo[f]] = "fulfilled"
        /\ \A k \in Sent(f, "tool-cancelled") :
            /\ hResult[hBridgeInfo[f]] = "rejected"
            /\ hError.isError => hToGuest[f][k].reason = hError.message
            /\ ~hError.isError => hToGuest[f][k].reason = hError.str

C22_Witness ==
    \E f \in Iframes :
        /\ Sent(f, "tool-cancelled") # {}
        /\ ~hError.isError
        /\ hResult[hBridgeInfo[f]] = "rejected"

\* Nothing the host has started is still on its way: no effect is due, no
\* load waits for its proxy or for its continuation, and no initializeApp
\* call can take a further step.
HostQuiet ==
    /\ hEffectDue = 0
    /\ \A f \in Iframes :
        /\ hListeners[f] = 0
        /\ hFirstTime[f] = 0
        /\ hPc[f] \in {"none", "failed", "notified", "awaitInit"}
        /\ hPc[f] = "awaitInit" => hInitResolved[f] = 0

\* C23: for every invocation of a tool with a UI resource, a later one in the
\* same tool window included, the result and cancellation continuations are
\* attached to its result promise exactly once: when the promise of the
\* invocation the panel shows has settled, the guest in the panel has
\* initialized and the host has nothing left to run, the guest has been sent
\* that invocation's terminal notification.
C23_EveryInvocationNotified ==
    \A i \in Execs :
        (/\ hInfo = i
         /\ hPanel # 0
         /\ hInitEvents[hPanel] > 0
         /\ hResult[i] # "pending"
         /\ HostQuiet)
        => /\ hAttached[i] = 1
           /\ hBridgeInfo[hPanel] = i
           /\ Sent(hPanel, "tool-result") \cup Sent(hPanel, "tool-cancelled") # {}

\* C24: the tool input is sent to a guest only after an initialized event of
\* that guest was received, and at most once; the hook resolves its promise
\* once, puts the saved handler back and passes every event on, so that every
\* later initialized event reaches only the saved handler.
C24_ToolInputAfterInitialized ==
    \A f \in Iframes :
        /\ Sent(f, "tool-input") # {} => hInitEvents[f] >= 1 /\ hInitResolved[f] >= 1
        /\ Cardinality(Sent(f, "tool-input")) <= 1
        /\ hInitResolved[f] <= 1
        /\ hInitEvents[f] >= 1 => hInitResolved[f] = 1 /\ hOnInit[f] = "original"
        /\ hOrigCalls[f] = hInitEvents[f]

C24_Witness ==
    \E f \in Iframes :
        /\ hInitEvents[f] >= 2
        /\ Cardinality(Sent(f, "tool-input")) = 1
        /\ hOrigCalls[f] = hInitEvents[f]

\* C25: on one iframe's bridge sendSandboxResourceReady is invoked at most
\* once and only after connect() resolved; after a rejected connect() it is
\* never invoked.
C25_ResourceReadyAfterConnect ==
    \A f \in Iframes :
        /\ Cardinality(Sent(f, "sandbox-resource-ready")) <= 1
        /\ Sent(f, "sandbox-resource-ready") # {} => hConnect[f] = "ok"
        /\ hConnect[f] \in {"none", "started", "failed"} => hToGuest[f] = <<>>

C25_Witness ==
    \E f \in Iframes :
        /\ hConnect[f] = "ok"
        /\ hToGuest[f] = <<ResourceReadyMsg>>

\* C26: when connect() is called on a bridge the message, open-link, logging,
\* size-change and initialized handlers are registered, and no handler is
\* registered for the first time afterwards.
C26_HandlersBeforeConnect ==
    \A f \in Iframes :
        hConnect[f] # "none" =>
            /\ hAtConnect[f] = {"onmessage", "onopenlink", "onloggingmessage",
                                "onsizechange", "oninitialized"}
            /\ hHandlers[f] \subseteq hAtConnect[f]

C26_Witness ==
    \E f \in Iframes : hConnect[f] = "ok" /\ hBridges[f] = 1 /\ hInitEvents[f] >= 1

\* A step of handleStop: the running execution becomes completed while no
\* handleExecute call resumes.
StopStep == hExecution = "running" /\ hExecution' = "completed" /\ hExecPc' = hExecPc

\* The bridge of iframe f is connected and the tool call it was made for has
\* not settled.
InFlightWithBridge(f) ==
    /\ hBridges[f] > 0
    /\ hConnect[f] = "ok"
    /\ hResult[hBridgeInfo[f]] = "pending"

C29_SessionRequestsSerialized ==
    /\ \A sid \in SessionIds : Len(inFlight[sid]) <= 1
    /\ \A sid \in SessionIds :
        (Known(sid) /\ ~crashed /\ inFlight[sid] = <<>>) => ENABLED PostEnter(sid)

\* C30: getUiResource produces UiResourceData exactly when the client is
\* connected, the read yields one content part and that part has the
\* tool-UI document type; with no part, with several parts or with another
\* content type the call throws and produces no data.
C30_UiResourceStrict ==
    resPc = "done" =>
        /\ resOut.status \in {"ok", "error"}
        /\ resOut.status = "ok" <=>
            /\ resConnected
            /\ resRead.kind = "contents"
            /\ Len(resRead.contents) = 1
            /\ resRead.contents[1].mimeType = "text/html;profile=mcp-app"
        /\ resOut.status = "error" => resOut.html = NoValue /\ resOut.csp = NoValue
        /\ resOut.status = "ok" => resOut.error = NoMessage /\ resOut.html # NoValue

C30_Witness ==
    /\ resPc = "done"
    /\ resOut.status = "ok"
    /\ Len(resRead.contents) = 1
    /\ resRead.contents[1].blob # NoValue
    /\ resOut.html = <<"<p>", "blob</p>">>

\* The countdown call that creates interval tm.
StartsTimer(tm) == tmCount = tm - 1 /\ tmCount' = tm

\* C31: the countdown call that starts a timer answers its caller with the
\* acknowledgement result, not with an error or a tool-not-found result; at
\* that moment no tick of the timer has been emitted and the timer is still
\* running.
C31_AcknowledgedAtOnce ==
    [][\A tm \in Tms : StartsTimer(tm) =>
            /\ lastReq'.method = "POST" /\ lastReq'.body = "countdown"
            /\ lastResp' = TransportReply(200, "ack")
            /\ tmActive'[tm]
            /\ ticks'[tm] = <<>>
            /\ \A t \in Tids : \A k \in 1..Len(tSent'[t][tm]) :
                    tSent'[t][tm][k].kind = "start"]_vars

\* C32: a countdown call whose start value is missing or lies outside 1 to
\* 3600 is answered with an error; it creates no timer and hands no
\* notification to any transport.
C32_InvalidStartRejected ==
    [][\A sid \in HeaderIds, body \in PostBodies :
        (/\ body.kind = "countdown"
         /\ (body.start = NoStart \/ body.start < 1 \/ body.start > 3600)
         /\ PostReuse(sid, body))
        => /\ lastResp' = TransportReply(200, "invalid-arguments")
           /\ UNCHANGED <<tSent, tmVars>>]_vars

C32_Witness ==
    /\ lastReq.method = "POST"
    /\ lastReq.body = "countdown"
    /\ lastResp = TransportReply(200, "invalid-arguments")
    /\ tmCount = 0

\* The interval callback of timer tm hands a notification to transport t.
TimerSends(t, tm) ==
    /\ Len(tSent'[t][tm]) = Len(tSent[t][tm]) + 1
    /\ tSent'[t][tm][Len(tSent'[t][tm])].kind \in {"tick", "done"}

\* C33: whatever a countdown timer sends goes through the transport the
\* session map holds for the timer's session id at the time of the send, not
\* through a reference read earlier; a transport that was closed and removed
\* from the map is never sent on.
C33_SendsThroughCurrentTransport ==
    [][\A t \in Tids, tm \in Tms :
        TimerSends(t, tm) => transports[tmSid[tm]] = t]_vars

InitializeBranchStep == \E t \in Tids : InitRegister(t)

\* A step of the transport-close handler (server.ts:238-244).
CloseHandlerStep == \E t \in Tids : TransportClose(t)

\* C35: an entry of the session map is added only by the initialize branch of
\* the POST handler and removed only by the transport-close handler; the GET
\* handler, the forwarding branch of POST and the countdown timer leave the
\* map as it is.
C35_MapMutatedByRegistryOnly ==
    [][\A sid \in SessionIds :
        /\ (transports[sid] = 0 /\ transports'[sid] # 0) => InitializeBranchStep
        /\ (transports[sid] # 0 /\ transports'[sid] = 0) => CloseHandlerStep
        /\ (transports[sid] # 0 /\ transports'[sid] # 0)
              => transports'[sid] = transports[sid]]_vars

\* An entry was added and removed again while a countdown timer had fired.
C35_Witness ==
    \E sid \in SessionIds :
        /\ transports[sid] = 0
        /\ sid \in removedIds
        /\ \E tm \in Tms : tmSid[tm] = sid /\ tmCurrent[tm] < tmStart[tm]

\* The messages of a sequence that the proxy relays rather than intercepts.
Relayed(msgs) == SelectSeq(msgs, LAMBDA d : ~IsResourceReady(d))

\* C36: the sandbox relay keeps arrival order in each direction: what was
\* posted to the inner frame is, in order, what arrived from the parent
\* without the intercepted resource-ready messages, and what was posted to
\* the parent after the proxy's own ready notice is, in order, what arrived
\* from the inner frame.
C36_RelayKeepsOrder ==
    pc = "steady" =>
        /\ toInner = Relayed(fromParent)
        /\ toParent = ReadyPosts \o fromInner

\* Two different messages were relayed in one direction.
C36_Witness ==
    /\ pc = "steady"
    /\ \/ Len(toInner) >= 2 /\ toInner[1] # toInner[2]
       \/ Len(fromInner) >= 2 /\ fromInner[1] # fromInner[2]

\* The initialize response carrying session id sid has been written
\* (server.ts:247) and the transport of that session has not been closed.
Issued(sid) ==
    \E t \in Tids : tSession[t] = sid /\ initPc[t] \in {"handled", "done"} /\ ~tClosed[t]

\* C37: a session id that the server has returned in an initialize response,
\* and whose session has not been closed, is in the session map, so that a
\* request carrying it is not answered as an invalid session.
C37_RegisteredBeforeUse ==
    \A sid \in SessionIds : Issued(sid) => Known(sid)

\* C38: an iframe gets an App Bridge, a connect() handshake or the
\* resource-ready message with the guest HTML only after the proxy-ready
\* notice was received from that iframe's own window; a proxy that never
\* announced itself gets none of them.
C38_HtmlOnlyToVerifiedProxy ==
    \A f \in Iframes :
        (hBridges[f] > 0 \/ hConnect[f] # "none" \/ hToGuest[f] # <<>>) => hReadyFrom[f]

\* The guest HTML was sent to an iframe.
C38_Witness ==
    \E f \in Iframes : Sent(f, "sandbox-resource-ready") # {} /\ hReadyFrom[f]

\* Invocation i still waits for its result while the window has moved on:
\* Stop has ended the execution, or a newer execution has started.
Stale(i) == hExecPc[i] = "awaitResult" /\ (hExecution # "running" \/ hExecCount > i)

\* C39: when the result of an earlier invocation settles after Stop has
\* marked the execution completed or after a newer execution has started,
\* the continuation of that invocation leaves the status shown by the tool
\* window as it is.
C39_LateResultChangesNothing ==
    [][\A i \in Execs : (Stale(i) /\ hExecPc'[i] = "done") => hExecution' = hExecution]_vars

\* C40: whenever the dashboard state shows a server as connected, the client
\* service holds a client for that server id.
C40_ConnectedHasClient ==
    \A id \in Servers : cStatus[id] = "connected" => cClients[id]

====
